---- MODULE Spec2Model ----
(***************************************************************************)
(* Verification model of the option market-making core:                    *)
(*   RiskController   (src/src/risk/controller.rs)                         *)
(*   Position         (src/src/inventory/position.rs)                      *)
(*   InventoryManager (src/src/inventory/manager.rs)                       *)
(*   DeltaHedger      (src/src/hedging/hedger.rs)                          *)
(*                                                                         *)
(* Every component is a single-threaded state object, so each one gets its *)
(* own specification (SpecRisk, SpecPosition, SpecInventory, SpecHedger);  *)
(* the variables of the other components stay at their constructed value.  *)
(*                                                                         *)
(* rust_decimal::Decimal is modelled as a base-10 fixed-point number: the  *)
(* integer n stands for n / 10^DecScale.  Addition, subtraction and        *)
(* comparison are exact; multiplication and division round the result to   *)
(* DecScale decimal places (the library rounds to its maximal scale, 28).  *)
(***************************************************************************)
EXTENDS Integers, Sequences, FiniteSets, TLC

VARIABLES
    rc,          \* RiskController: the object's fields
    rc_limits,   \* RiskController.limits (immutable after new)
    rc_call,     \* last public call made on the controller: <<name, arg>>
    rc_pre,      \* the controller's fields right before that call
    rc_reports,  \* P&L values reported by update_pnl since new / reset_daily
    rc_all       \* P&L values reported by update_pnl since new

riskVars == <<rc, rc_limits, rc_call, rc_pre, rc_reports, rc_all>>

VARIABLES
    pos,         \* Position: the object's fields
    pos_entry,   \* how the position was constructed
    pos_call,    \* last call made on the position
    pos_pre,     \* the position's fields right before that call
    pos_ret,     \* value returned by that call (close)
    pos_count,   \* number of calls made so far
    pos_trades,  \* the trades applied by add / reduce so far, in order, each
                 \* <<signed quantity, price>>
    pos_run      \* this run: the number of calls it makes at most and the
                 \* quantities and prices its trades are drawn from

posVars == <<pos, pos_entry, pos_call, pos_pre, pos_ret, pos_count, pos_trades, pos_run>>

VARIABLES
    inv,         \* InventoryManager: positions, limits, default_multiplier
    inv_call,    \* last call made on the manager
    inv_pre,     \* the manager right before that call
    inv_ret,     \* Result returned by that call
    inv_count,   \* number of calls made so far
    inv_max      \* number of calls this run makes at most

invVars == <<inv, inv_call, inv_pre, inv_ret, inv_count, inv_max>>

VARIABLES
    h,           \* DeltaHedger: params, current_delta, last_hedge_ms
    h_call,      \* last call made on the hedger
    h_pre,       \* the hedger right before that call
    h_ret,       \* value returned by that call
    h_count,     \* number of calls made so far (in a hedging loop: up to MaxHedgeOps)
    h_loop       \* TRUE when the caller runs the hedging loop: calculate_hedge,
                 \* then record_hedge of the returned order's quantity, again and again

hedgeVars == <<h, h_call, h_pre, h_ret, h_count, h_loop>>

VARIABLES
    sc,          \* SpreadCalculator: min_spread, max_spread, the two factors
    qp,          \* QuoteParams the caller holds
    q_call,      \* last call made with them: [op, params, ts]
    q_ret,       \* what that call returned: <<value>>, or Panic
    q_pre        \* <<params, spread>> of the optimal_spread call right before
                 \* the last call, when both were optimal_spread calls

quoteVars == <<sc, qp, q_call, q_ret, q_pre>>

VARIABLES
    g_call,      \* last evaluation over Greeks values: [op, n, ...arguments]
    g_ret,       \* what it evaluated to
    g_count      \* number of evaluations made so far

greeksVars == <<g_call, g_ret, g_count>>

VARIABLES
    pc,          \* PnLCalculator: realized_pnl, unrealized_pnl, total_fees
    pc_log,      \* calls made on it since new() or the last reset(), in order
    pc_count     \* number of calls made so far

pnlVars == <<pc, pc_log, pc_count>>

VARIABLES
    md,          \* MarketDataHandler: ticks, sequences
    md_pre,      \* the handler right before the last call
    md_call,     \* last call made on it: <<name, update, number of the call>>
    md_ret,      \* what that call returned
    md_applied,  \* per symbol, the sequence numbers applied so far, in order
    md_fresh     \* the same, counted from new() or the last clear()

marketVars == <<md, md_pre, md_call, md_ret, md_applied, md_fresh>>

VARIABLES
    ob,          \* OptionOrderBookManager: books, books_by_hash
    ob_pre,      \* the manager right before the last call
    ob_call,     \* last call made on it: <<name, argument, number of the call>>
    ob_ret,      \* what that call returned
    ob_seen      \* symbols passed to get_or_create so far

bookVars == <<ob, ob_pre, ob_call, ob_ret, ob_seen>>

vars == <<riskVars, posVars, invVars, hedgeVars, quoteVars, greeksVars, pnlVars,
          marketVars, bookVars>>

----------------------------------------------------------------------------
(* Bounds of the model *)

\* decimal places kept by the modelled Decimal (28 in rust_decimal)
DecScale == 1

\* number of calls made on a RiskController
MaxRiskOps == 4

\* number of calls made on a Position after its construction
MaxPosOps == 2

\* number of trades applied to a position that starts flat
MaxTradeOps == 3

\* number of calls made on an InventoryManager
MaxInvOps == 3

\* number of calls made on an InventoryManager whose Greeks are checked
MaxGreekLimitOps == 5

\* number of calls made on a DeltaHedger
MaxHedgeOps == 3

\* number of calls made on a PnLCalculator
MaxPnlOps == 4

\* number of evaluations made over Greeks values
MaxGreeksOps == 2

\* number of calls made on a MarketDataHandler
MaxMarketOps == 3

\* largest sequence number an update carries
MaxSequence == 3

\* number of calls made on an OptionOrderBookManager
MaxBookOps == 4

----------------------------------------------------------------------------
(* Decimal arithmetic *)

DecOne == 10 ^ DecScale

\* the Decimal with integer value n
D(n) == n * DecOne

Abs(x) == IF x < 0 THEN -x ELSE x

\* Decimal::MAX: above every amount the model computes
Decimal_MAX == 2000000000

\* Decimal::signum: -1, 0 or 1
Signum(x) == IF x > 0 THEN D(1) ELSE IF x < 0 THEN D(-1) ELSE 0

Min(a, b) == IF a < b THEN a ELSE b

Max(a, b) == IF a > b THEN a ELSE b

SetMax(S) == CHOOSE x \in S : \A y \in S : y <= x

\* n / d for naturals n, d > 0, rounded half to even
RoundDiv(n, d) ==
    LET q == n \div d
        r == n % d
    IN  IF 2 * r > d \/ (2 * r = d /\ q % 2 = 1) THEN q + 1 ELSE q

\* Decimal * Decimal
DecMul(a, b) ==
    LET s  == IF (a < 0) = (b < 0) THEN 1 ELSE -1
        ai == Abs(a) \div DecOne
        af == Abs(a) % DecOne
    IN  s * (ai * Abs(b) + RoundDiv(af * Abs(b), DecOne))

\* digit-by-digit long division: the quotient so far is q, the remainder r
RECURSIVE LongDiv(_, _, _, _)
LongDiv(q, r, d, digits) ==
    IF digits = 0
    THEN IF 2 * r > d \/ (2 * r = d /\ q % 2 = 1) THEN q + 1 ELSE q
    ELSE LongDiv(10 * q + ((10 * r) \div d), (10 * r) % d, d, digits - 1)

\* Decimal / Decimal, b # 0 (division by zero panics)
DecDiv(a, b) ==
    LET s == IF (a < 0) = (b < 0) THEN 1 ELSE -1
    IN  s * LongDiv(Abs(a) \div Abs(b), Abs(a) % Abs(b), Abs(b), DecScale)

----------------------------------------------------------------------------
(* RiskController *)

\* Option<String>::None
None == <<>>

\* RiskLimits configurations a controller is constructed with
RiskLimitsSet ==
    { [max_daily_loss |-> D(10), max_drawdown |-> D(15), max_position_value |-> D(10),
       max_delta |-> D(5), max_gamma |-> D(1), max_vega |-> D(20)],
      [max_daily_loss |-> D(10), max_drawdown |-> D(5),  max_position_value |-> D(5),
       max_delta |-> D(5), max_gamma |-> D(2), max_vega |-> D(50)] }

\* amounts passed to update_pnl / update_position_value
RiskAmounts == { D(-15), D(-10), D(-5), D(0), D(5), D(10), D(15) }

RiskController_new ==
    [ daily_pnl      |-> 0,
      peak_pnl       |-> 0,
      position_value |-> 0,
      is_halted      |-> FALSE,
      halt_reason    |-> None ]

RiskController_is_halted(self) == self.is_halted

RiskController_halt_reason(self) == self.halt_reason

RiskController_halt(self, reason) ==
    [self EXCEPT !.is_halted = TRUE, !.halt_reason = reason]

\* seeded fault: resume clears the flag but keeps the reason
RiskController_resume_keeps_reason(self) ==
    [self EXCEPT !.is_halted = FALSE]

RiskController_resume(self) ==
    [self EXCEPT !.is_halted = FALSE, !.halt_reason = None]

\* seeded fault: the daily reset also lifts the halt
RiskController_reset_daily_resumes(self) ==
    [self EXCEPT !.daily_pnl = 0, !.peak_pnl = 0, !.is_halted = FALSE,
                 !.halt_reason = None]

RiskController_reset_daily(self) ==
    [self EXCEPT !.daily_pnl = 0, !.peak_pnl = 0]

\* seeded fault: a P&L back within both limits clears the halt
RiskController_check_pnl_limits_autoresume(self, limits) ==
    IF self.daily_pnl < -limits.max_daily_loss
    THEN RiskController_halt(self,
           <<"Daily loss limit exceeded", self.daily_pnl, limits.max_daily_loss>>)
    ELSE IF self.peak_pnl - self.daily_pnl > limits.max_drawdown
         THEN RiskController_halt(self,
                <<"Drawdown limit exceeded", self.peak_pnl - self.daily_pnl,
                  limits.max_drawdown>>)
         ELSE RiskController_resume(self)

\* format!("Daily loss limit exceeded: {} < -{}", ..) etc. are kept as
\* <<text, first value, second value>>
RiskController_check_pnl_limits(self, limits) ==
    LET s1 == IF self.daily_pnl < -limits.max_daily_loss
              THEN RiskController_halt(self,
                     <<"Daily loss limit exceeded", self.daily_pnl, limits.max_daily_loss>>)
              ELSE self
        drawdown == s1.peak_pnl - s1.daily_pnl
    IN  IF drawdown > limits.max_drawdown
        THEN RiskController_halt(s1,
               <<"Drawdown limit exceeded", drawdown, limits.max_drawdown>>)
        ELSE s1

\* seeded fault: a position value exactly at the limit halts
RiskController_check_position_limits_inclusive(self, limits) ==
    IF Abs(self.position_value) >= limits.max_position_value
    THEN RiskController_halt(self,
           <<"Position value limit exceeded", Abs(self.position_value),
             limits.max_position_value>>)
    ELSE self

RiskController_check_position_limits(self, limits) ==
    IF Abs(self.position_value) > limits.max_position_value
    THEN RiskController_halt(self,
           <<"Position value limit exceeded", Abs(self.position_value),
             limits.max_position_value>>)
    ELSE self

RiskController_update_pnl(self, limits, pnl) ==
    LET s1 == [self EXCEPT !.daily_pnl = pnl]
        s2 == IF pnl > s1.peak_pnl THEN [s1 EXCEPT !.peak_pnl = pnl] ELSE s1
    IN  RiskController_check_pnl_limits(s2, limits)

\* seeded fault: the new position value is stored without the limit check
RiskController_update_position_value_unchecked(self, limits, value) ==
    [self EXCEPT !.position_value = value]

RiskController_update_position_value(self, limits, value) ==
    RiskController_check_position_limits([self EXCEPT !.position_value = value], limits)

RiskOpsLeft == rc_call[3] < MaxRiskOps

RiskStep(name, arg, next) ==
    /\ RiskOpsLeft
    /\ rc' = next
    /\ rc_pre' = rc
    /\ rc_call' = <<name, arg, rc_call[3] + 1>>
    /\ UNCHANGED <<rc_limits, posVars, invVars, hedgeVars, quoteVars, greeksVars, pnlVars, marketVars, bookVars>>

UpdatePnl ==
    \E pnl \in RiskAmounts :
        /\ RiskStep("update_pnl", pnl, RiskController_update_pnl(rc, rc_limits, pnl))
        /\ rc_reports' = rc_reports \cup {pnl}
        /\ rc_all' = rc_all \cup {pnl}

UpdatePositionValue ==
    \E value \in RiskAmounts :
        /\ RiskStep("update_position_value", value,
                    RiskController_update_position_value(rc, rc_limits, value))
        /\ UNCHANGED <<rc_reports, rc_all>>

Halt ==
    /\ RiskStep("halt", 0, RiskController_halt(rc, <<"manual">>))
    /\ UNCHANGED <<rc_reports, rc_all>>

Resume ==
    /\ RiskStep("resume", 0, RiskController_resume(rc))
    /\ UNCHANGED <<rc_reports, rc_all>>

ResetDaily ==
    /\ RiskStep("reset_daily", 0, RiskController_reset_daily(rc))
    /\ rc_reports' = {}
    /\ UNCHANGED rc_all


----------------------------------------------------------------------------
(* Greeks (the part Position needs) *)

Greeks_zero == [delta |-> 0, gamma |-> 0, theta |-> 0, vega |-> 0, rho |-> 0]

\* dec!(n / 10)
Tenths(n) == DecDiv(D(n), D(10))

Greeks_new(delta, gamma, theta, vega, rho) ==
    [delta |-> delta, gamma |-> gamma, theta |-> theta, vega |-> vega, rho |-> rho]

\* per-contract and portfolio Greeks
GreeksSet ==
    { Greeks_zero,
      Greeks_new(Tenths(5), Tenths(1), Tenths(-5), Tenths(15), Tenths(1)),
      Greeks_new(D(-1), Tenths(2), Tenths(-1), Tenths(3), Tenths(-2)),
      Greeks_new(D(10), D(2), D(-3), D(40), D(1)) }

\* seeded fault: the other delta is subtracted
Greeks_add_subtracts_delta(self, other) ==
    [ delta |-> self.delta - other.delta,
      gamma |-> self.gamma + other.gamma,
      theta |-> self.theta + other.theta,
      vega  |-> self.vega + other.vega,
      rho   |-> self.rho + other.rho ]

\* impl Add for Greeks
Greeks_add(self, other) ==
    [ delta |-> self.delta + other.delta,
      gamma |-> self.gamma + other.gamma,
      theta |-> self.theta + other.theta,
      vega  |-> self.vega + other.vega,
      rho   |-> self.rho + other.rho ]

\* impl Sum for Greeks: iter.fold(zero, |acc, g| acc + g)
RECURSIVE Greeks_sum(_)
Greeks_sum(iter) ==
    IF iter = <<>>
    THEN Greeks_zero
    ELSE Greeks_add(Greeks_sum(SubSeq(iter, 1, Len(iter) - 1)), iter[Len(iter)])

Greeks_dollar_delta(self, spot, multiplier) ==
    DecMul(DecMul(self.delta, spot), multiplier)

Greeks_dollar_gamma(self, spot, multiplier) ==
    LET one_percent == DecDiv(spot, D(100))
    IN  DecDiv(DecMul(DecMul(DecMul(self.gamma, one_percent), one_percent), multiplier),
               D(2))

Greeks_dollar_theta(self, multiplier) == DecMul(self.theta, multiplier)

Greeks_dollar_vega(self, multiplier) == DecMul(self.vega, multiplier)

\* RiskBreach::Delta { current, limit } and the like, in the order pushed;
\* the thresholds apply to the Greeks themselves, and theta has none
RiskController_check_greek_limits(self, limits, greeks) ==
    (IF Abs(greeks.delta) > limits.max_delta
     THEN << [kind |-> "Delta", current |-> Abs(greeks.delta), limit |-> limits.max_delta] >>
     ELSE << >>)
    \o (IF Abs(greeks.gamma) > limits.max_gamma
        THEN << [kind |-> "Gamma", current |-> Abs(greeks.gamma), limit |-> limits.max_gamma] >>
        ELSE << >>)
    \o (IF Abs(greeks.vega) > limits.max_vega
        THEN << [kind |-> "Vega", current |-> Abs(greeks.vega), limit |-> limits.max_vega] >>
        ELSE << >>)

\* check_greek_limits(&self, ..): the argument recorded is <<greeks, breaches returned>>
CheckRiskGreekLimits ==
    \E greeks \in { Greeks_new(Tenths(5), Tenths(1), Tenths(-5), Tenths(15), Tenths(1)),
                     Greeks_new(D(-10), D(2), D(-3), D(40), D(1)) } :
        /\ RiskStep("check_greek_limits",
                    <<greeks, RiskController_check_greek_limits(rc, rc_limits, greeks)>>,
                    rc)
        /\ UNCHANGED <<rc_reports, rc_all>>

----------------------------------------------------------------------------
(* Position *)

\* contract multipliers, entry / trade quantities and prices
Multipliers == { D(1), D(100) }

EntryQuantities == { D(-10), D(-1), D(0), D(1), D(10) }

TradeQuantities == { D(-15), D(-10), D(0), D(2), D(10) }

\* quantities and prices of the trades applied to a position that starts flat
SequenceQuantities == { D(-10), D(2), D(10) }
SequencePrices == { D(2), D(6) }

EntryPrices == { D(1), D(5) }

Prices == { D(2), D(5), D(6) }

Position_new(multiplier) ==
    [ quantity       |-> 0,
      average_price  |-> 0,
      cost_basis     |-> 0,
      multiplier     |-> multiplier,
      greeks         |-> Greeks_zero,
      realized_pnl   |-> 0,
      last_update_ms |-> 0 ]

\* seeded fault: the cost basis of an entry leaves out the multiplier
Position_with_entry_no_multiplier(quantity, price, multiplier, timestamp_ms) ==
    [ quantity       |-> quantity,
      average_price  |-> price,
      cost_basis     |-> DecMul(quantity, price),
      multiplier     |-> multiplier,
      greeks         |-> Greeks_zero,
      realized_pnl   |-> 0,
      last_update_ms |-> timestamp_ms ]

Position_with_entry(quantity, price, multiplier, timestamp_ms) ==
    [ quantity       |-> quantity,
      average_price  |-> price,
      cost_basis     |-> DecMul(DecMul(quantity, price), multiplier),
      multiplier     |-> multiplier,
      greeks         |-> Greeks_zero,
      realized_pnl   |-> 0,
      last_update_ms |-> timestamp_ms ]

Position_is_flat(self) == self.quantity = 0

Position_notional_value(self, current_price) ==
    DecMul(DecMul(self.quantity, current_price), self.multiplier)

Position_unrealized_pnl(self, current_price) ==
    Position_notional_value(self, current_price) - self.cost_basis

Position_total_pnl(self, current_price) ==
    self.realized_pnl + Position_unrealized_pnl(self, current_price)

\* seeded fault: a flip keeps the old average price
Position_reduce_or_flip_keeps_average(self, quantity, price, timestamp_ms) ==
    LET close_quantity == Min(Abs(quantity), Abs(self.quantity))
        close_sign  == IF self.quantity > 0 THEN D(1) ELSE D(-1)
        close_value == DecMul(DecMul(close_quantity, price), self.multiplier)
        close_cost  == DecMul(DecMul(close_quantity, self.average_price), self.multiplier)
        q           == self.quantity + quantity
    IN  [self EXCEPT !.realized_pnl = @ + DecMul(close_value - close_cost, close_sign),
                     !.quantity = q,
                     !.cost_basis = DecMul(DecMul(q, self.average_price), self.multiplier),
                     !.last_update_ms = timestamp_ms]

\* seeded fault: a flip leaves the position flat instead of opening the rest
Position_reduce_or_flip_closes_only(self, quantity, price, timestamp_ms) ==
    LET close_quantity == Min(Abs(quantity), Abs(self.quantity))
        close_sign  == IF self.quantity > 0 THEN D(1) ELSE D(-1)
        close_value == DecMul(DecMul(close_quantity, price), self.multiplier)
        close_cost  == DecMul(DecMul(close_quantity, self.average_price), self.multiplier)
        q           == self.quantity + DecMul(close_quantity, Signum(quantity))
    IN  [self EXCEPT !.realized_pnl = @ + DecMul(close_value - close_cost, close_sign),
                     !.quantity = q,
                     !.cost_basis = DecMul(DecMul(q, self.average_price), self.multiplier),
                     !.last_update_ms = timestamp_ms]

Position_reduce_or_flip(self, quantity, price, timestamp_ms) ==
    LET close_quantity == Min(Abs(quantity), Abs(self.quantity))
        close_sign  == IF self.quantity > 0 THEN D(1) ELSE D(-1)
        close_value == DecMul(DecMul(close_quantity, price), self.multiplier)
        close_cost  == DecMul(DecMul(close_quantity, self.average_price), self.multiplier)
        realized    == self.realized_pnl + DecMul(close_value - close_cost, close_sign)
        remaining   == Abs(quantity) - close_quantity
    IN  IF remaining = 0
        THEN LET q == self.quantity + quantity
             IN  [self EXCEPT !.realized_pnl = realized,
                              !.quantity = q,
                              !.cost_basis = DecMul(DecMul(q, self.average_price), self.multiplier),
                              !.last_update_ms = timestamp_ms]
        ELSE LET q == DecMul(remaining, Signum(quantity))
             IN  [self EXCEPT !.realized_pnl = realized,
                              !.quantity = q,
                              !.average_price = price,
                              !.cost_basis = DecMul(DecMul(q, price), self.multiplier),
                              !.last_update_ms = timestamp_ms]

\* seeded fault: the average is taken over the quantity alone, without the multiplier
Position_add_average_per_quantity(self, quantity, price, timestamp_ms) ==
    IF quantity = 0
    THEN self
    ELSE LET trade_value == DecMul(DecMul(quantity, price), self.multiplier)
         IN  IF Signum(self.quantity) = Signum(quantity) \/ self.quantity = 0
             THEN LET new_quantity == self.quantity + quantity
                  IN  [self EXCEPT
                         !.average_price =
                             IF new_quantity # 0
                             THEN DecDiv(self.cost_basis + trade_value, new_quantity)
                             ELSE @,
                         !.quantity = new_quantity,
                         !.cost_basis = @ + trade_value,
                         !.last_update_ms = timestamp_ms]
             ELSE [Position_reduce_or_flip(self, quantity, price, timestamp_ms)
                     EXCEPT !.last_update_ms = timestamp_ms]

Position_add(self, quantity, price, timestamp_ms) ==
    IF quantity = 0
    THEN self
    ELSE LET trade_value == DecMul(DecMul(quantity, price), self.multiplier)
         IN  IF Signum(self.quantity) = Signum(quantity) \/ self.quantity = 0
             THEN LET new_quantity == self.quantity + quantity
                  IN  [self EXCEPT
                         !.average_price =
                             IF new_quantity # 0
                             THEN DecDiv(self.cost_basis + trade_value,
                                         DecMul(new_quantity, self.multiplier))
                             ELSE @,
                         !.quantity = new_quantity,
                         !.cost_basis = @ + trade_value,
                         !.last_update_ms = timestamp_ms]
             ELSE [Position_reduce_or_flip(self, quantity, price, timestamp_ms)
                     EXCEPT !.last_update_ms = timestamp_ms]

Position_reduce(self, quantity, price, timestamp_ms) ==
    Position_add(self, -quantity, price, timestamp_ms)

\* seeded fault: close leaves the average price in place
Position_close_keeps_average(self, price, timestamp_ms) ==
    IF Position_is_flat(self)
    THEN <<self, 0>>
    ELSE LET close_pnl == Position_unrealized_pnl(self, price)
         IN  << [self EXCEPT !.realized_pnl = @ + close_pnl,
                             !.quantity = 0,
                             !.cost_basis = 0,
                             !.last_update_ms = timestamp_ms],
                close_pnl >>

\* close returns the realized amount: <<position afterwards, returned value>>
Position_close(self, price, timestamp_ms) ==
    IF Position_is_flat(self)
    THEN <<self, 0>>
    ELSE LET close_pnl == Position_unrealized_pnl(self, price)
         IN  << [self EXCEPT !.realized_pnl = @ + close_pnl,
                             !.quantity = 0,
                             !.average_price = 0,
                             !.cost_basis = 0,
                             !.last_update_ms = timestamp_ms],
                close_pnl >>

Position_reset(self) ==
    [self EXCEPT !.quantity = 0,
                 !.average_price = 0,
                 !.cost_basis = 0,
                 !.greeks = Greeks_zero,
                 !.realized_pnl = 0,
                 !.last_update_ms = 0]

PosOpsLeft == pos_count < pos_run.max

\* timestamp of the next call: the clock advances by a second per call
PosNow == 1000 * (pos_count + 2)

PosStep(call, next, ret) ==
    /\ PosOpsLeft
    /\ pos' = next
    /\ pos_pre' = pos
    /\ pos_call' = call
    /\ pos_ret' = ret
    /\ pos_count' = pos_count + 1
    /\ UNCHANGED <<pos_entry, pos_run, riskVars, invVars, hedgeVars, quoteVars, greeksVars, pnlVars, marketVars, bookVars>>

Add ==
    \E quantity \in pos_run.quantities, price \in pos_run.prices :
        LET ts == PosNow
        IN  /\ PosStep([op |-> "add", quantity |-> quantity, price |-> price, ts |-> ts],
                       Position_add(pos, quantity, price, ts), 0)
            /\ pos_trades' = Append(pos_trades, <<quantity, price>>)

Reduce ==
    \E quantity \in pos_run.quantities, price \in pos_run.prices :
        LET ts == PosNow
        IN  /\ PosStep([op |-> "reduce", quantity |-> quantity, price |-> price, ts |-> ts],
                       Position_reduce(pos, quantity, price, ts), 0)
            /\ pos_trades' = Append(pos_trades, <<-quantity, price>>)

Close ==
    \E price \in Prices :
        LET ts == PosNow
            r  == Position_close(pos, price, ts)
        IN  /\ PosStep([op |-> "close", quantity |-> 0, price |-> price, ts |-> ts],
                       r[1], r[2])
            /\ UNCHANGED pos_trades

Reset ==
    /\ PosStep([op |-> "reset", quantity |-> 0, price |-> 0, ts |-> 0],
               Position_reset(pos), 0)
    /\ UNCHANGED pos_trades


----------------------------------------------------------------------------
(* PositionLimits and InventoryManager *)

Symbols == { "BTC-C", "BTC-P" }

\* PositionLimits::new(per_option, per_strike, per_expiration, per_underlying)
PositionLimits_new(per_option, per_strike, per_expiration, per_underlying) ==
    [ per_option     |-> per_option,
      per_strike     |-> per_strike,
      per_expiration |-> per_expiration,
      per_underlying |-> per_underlying,
      max_delta      |-> Decimal_MAX,
      max_gamma      |-> Decimal_MAX,
      max_vega       |-> Decimal_MAX,
      max_theta      |-> Decimal_MAX ]

\* with_max_delta, with_max_gamma, with_max_vega and with_max_theta in a row
PositionLimits_with_max_greeks(self, max_delta, max_gamma, max_vega, max_theta) ==
    [self EXCEPT !.max_delta = max_delta, !.max_gamma = max_gamma,
                 !.max_vega = max_vega, !.max_theta = max_theta]

PositionLimitsSet ==
    { PositionLimits_new(D(10), D(20), D(50), D(100)),
      PositionLimits_with_max_greeks(PositionLimits_new(D(5), D(20), D(50), D(100)),
                                     D(1000), D(10), D(100), D(50)) }

InventoryQuantities == { D(-15), D(-10), D(-5), D(0), D(5), D(10) }

InventoryPrices == { D(5), D(6) }

PositionLimits_per_option(self) == self.per_option

\* seeded fault: the quantity is compared without taking its absolute value
PositionLimits_exceeds_per_option_signed(self, quantity) ==
    quantity > self.per_option

PositionLimits_exceeds_per_option(self, quantity) ==
    Abs(quantity) > self.per_option

\* LimitBreach::Delta { current, limit } and the like
LimitBreach(kind, current, limit) == [ kind |-> kind, current |-> current, limit |-> limit ]

\* seeded fault: the check returns at the first breach it finds
PositionLimits_check_greek_limits_first_only(self, greeks, spot, multiplier) ==
    LET dollar_delta == Abs(Greeks_dollar_delta(greeks, spot, multiplier))
        dollar_gamma == Abs(Greeks_dollar_gamma(greeks, spot, multiplier))
        dollar_vega  == Abs(Greeks_dollar_vega(greeks, multiplier))
        dollar_theta == Abs(Greeks_dollar_theta(greeks, multiplier))
    IN  IF dollar_delta > self.max_delta
        THEN << LimitBreach("Delta", dollar_delta, self.max_delta) >>
        ELSE IF dollar_gamma > self.max_gamma
        THEN << LimitBreach("Gamma", dollar_gamma, self.max_gamma) >>
        ELSE IF dollar_vega > self.max_vega
        THEN << LimitBreach("Vega", dollar_vega, self.max_vega) >>
        ELSE IF dollar_theta > self.max_theta
        THEN << LimitBreach("Theta", dollar_theta, self.max_theta) >>
        ELSE << >>

\* Vec<LimitBreach>, in the order the breaches are pushed
PositionLimits_check_greek_limits(self, greeks, spot, multiplier) ==
    LET dollar_delta == Abs(Greeks_dollar_delta(greeks, spot, multiplier))
        dollar_gamma == Abs(Greeks_dollar_gamma(greeks, spot, multiplier))
        dollar_vega  == Abs(Greeks_dollar_vega(greeks, multiplier))
        dollar_theta == Abs(Greeks_dollar_theta(greeks, multiplier))
    IN  (IF dollar_delta > self.max_delta
         THEN << LimitBreach("Delta", dollar_delta, self.max_delta) >> ELSE << >>)
        \o (IF dollar_gamma > self.max_gamma
            THEN << LimitBreach("Gamma", dollar_gamma, self.max_gamma) >> ELSE << >>)
        \o (IF dollar_vega > self.max_vega
            THEN << LimitBreach("Vega", dollar_vega, self.max_vega) >> ELSE << >>)
        \o (IF dollar_theta > self.max_theta
            THEN << LimitBreach("Theta", dollar_theta, self.max_theta) >> ELSE << >>)

\* HashMap<String, Position>: a function whose domain is the set of keys
InventoryManager_new(limits, default_multiplier) ==
    [ positions          |-> << >>,
      limits             |-> limits,
      default_multiplier |-> default_multiplier ]

InventoryManager_get_position(self, symbol) ==
    IF symbol \in DOMAIN self.positions THEN <<self.positions[symbol]>> ELSE None

\* entry(symbol).or_insert_with(|| Position::new(default_multiplier))
InventoryManager_get_or_create_position(self, symbol) ==
    IF symbol \in DOMAIN self.positions
    THEN self
    ELSE [self EXCEPT !.positions =
            [k \in DOMAIN self.positions \cup {symbol} |->
               IF k = symbol THEN Position_new(self.default_multiplier)
               ELSE self.positions[k]]]

Error_inventory_limit_exceeded(limit_type, limit, current) ==
    [ err |-> "InventoryLimitExceeded", limit_type |-> limit_type,
      limit |-> limit, current |-> current ]

Ok == [ err |-> "Ok", limit_type |-> "", limit |-> 0, current |-> 0 ]

\* seeded fault: the position is created before the limit is checked
InventoryManager_record_trade_create_first(self, symbol, quantity, price, timestamp_ms) ==
    LET created == InventoryManager_get_or_create_position(self, symbol)
        new_qty == created.positions[symbol].quantity + quantity
    IN  IF PositionLimits_exceeds_per_option(self.limits, new_qty)
        THEN << created,
                Error_inventory_limit_exceeded("per_option",
                    PositionLimits_per_option(self.limits), Abs(new_qty)) >>
        ELSE << [created EXCEPT !.positions[symbol] =
                    Position_add(@, quantity, price, timestamp_ms)],
                Ok >>

\* seeded fault: a recorded trade stamps every position with its timestamp
InventoryManager_record_trade_stamps_all(self, symbol, quantity, price, timestamp_ms) ==
    LET current_qty == IF symbol \in DOMAIN self.positions
                       THEN self.positions[symbol].quantity
                       ELSE 0
        new_qty == current_qty + quantity
    IN  IF PositionLimits_exceeds_per_option(self.limits, new_qty)
        THEN << self,
                Error_inventory_limit_exceeded("per_option",
                    PositionLimits_per_option(self.limits), Abs(new_qty)) >>
        ELSE LET created == InventoryManager_get_or_create_position(self, symbol)
             IN  << [created EXCEPT !.positions =
                        [k \in DOMAIN created.positions |->
                            IF k = symbol
                            THEN Position_add(created.positions[k], quantity, price,
                                              timestamp_ms)
                            ELSE [created.positions[k] EXCEPT
                                     !.last_update_ms = timestamp_ms]]],
                    Ok >>

\* record_trade returns a Result: <<manager afterwards, result>>
InventoryManager_record_trade(self, symbol, quantity, price, timestamp_ms) ==
    LET current_qty == IF symbol \in DOMAIN self.positions
                       THEN self.positions[symbol].quantity
                       ELSE 0
        new_qty == current_qty + quantity
    IN  IF PositionLimits_exceeds_per_option(self.limits, new_qty)
        THEN << self,
                Error_inventory_limit_exceeded("per_option",
                    PositionLimits_per_option(self.limits), Abs(new_qty)) >>
        ELSE LET created == InventoryManager_get_or_create_position(self, symbol)
             IN  << [created EXCEPT !.positions[symbol] =
                        Position_add(@, quantity, price, timestamp_ms)],
                    Ok >>

InventoryManager_remove_position(self, symbol) ==
    [self EXCEPT !.positions = [k \in DOMAIN self.positions \ {symbol} |-> self.positions[k]]]

\* Position::update_greeks
Position_update_greeks(self, greeks, timestamp_ms) ==
    [self EXCEPT !.greeks = greeks, !.last_update_ms = timestamp_ms]

\* nothing happens for a symbol without a position
InventoryManager_update_greeks(self, symbol, greeks, timestamp_ms) ==
    IF symbol \in DOMAIN self.positions
    THEN [self EXCEPT !.positions[symbol] = Position_update_greeks(@, greeks, timestamp_ms)]
    ELSE self

\* positions.values().map(|p| *p.greeks()).sum(); the HashMap yields the
\* positions in an unspecified order, which the exact sum does not depend on
InventoryManager_total_greeks(self) ==
    LET RECURSIVE Fold(_)
        Fold(keys) ==
            IF keys = {}
            THEN Greeks_zero
            ELSE LET k == CHOOSE key \in keys : TRUE
                 IN  Greeks_add(Fold(keys \ {k}), self.positions[k].greeks)
    IN  Fold(DOMAIN self.positions)

InventoryManager_check_greek_limits(self, spot, multiplier) ==
    PositionLimits_check_greek_limits(self.limits, InventoryManager_total_greeks(self),
                                      spot, multiplier)

InvOpsLeft == inv_count < inv_max

InvStep(call, next, ret) ==
    /\ InvOpsLeft
    /\ inv' = next
    /\ inv_pre' = inv
    /\ inv_call' = call
    /\ inv_ret' = ret
    /\ inv_count' = inv_count + 1
    /\ UNCHANGED inv_max
    /\ UNCHANGED <<riskVars, posVars, hedgeVars, quoteVars, greeksVars, pnlVars, marketVars, bookVars>>

RecordTrade ==
    \E symbol \in Symbols, quantity \in InventoryQuantities, price \in InventoryPrices :
        LET ts == 1000 * (inv_count + 1)
            r  == InventoryManager_record_trade(inv, symbol, quantity, price, ts)
        IN  InvStep([op |-> "record_trade", symbol |-> symbol, quantity |-> quantity,
                     price |-> price, ts |-> ts], r[1], r[2])

GetOrCreatePosition ==
    \E symbol \in Symbols :
        InvStep([op |-> "get_or_create_position", symbol |-> symbol, quantity |-> 0,
                 price |-> 0, ts |-> 0],
                InventoryManager_get_or_create_position(inv, symbol), Ok)

RemovePosition ==
    \E symbol \in Symbols :
        InvStep([op |-> "remove_position", symbol |-> symbol, quantity |-> 0,
                 price |-> 0, ts |-> 0],
                InventoryManager_remove_position(inv, symbol), Ok)

\* Greeks a pricing pass reports for a position
InventoryGreeks ==
    { Greeks_new(Tenths(5), Tenths(1), Tenths(-5), Tenths(15), Tenths(1)),
      Greeks_new(D(10), D(2), D(-3), D(40), D(1)) }

UpdateGreeks ==
    \E symbol \in Symbols, greeks \in InventoryGreeks :
        LET ts == 1000 * (inv_count + 1)
        IN  InvStep([op |-> "update_greeks", symbol |-> symbol, greeks |-> greeks,
                     ts |-> ts],
                    InventoryManager_update_greeks(inv, symbol, greeks, ts), Ok)

\* <<spot, multiplier>>
CheckGreekLimits ==
    \E sm \in { <<D(100), D(1)>>, <<D(100), D(10)>> } :
        InvStep([op |-> "check_greek_limits", n |-> inv_count + 1, spot |-> sm[1],
                 multiplier |-> sm[2]],
                inv, InventoryManager_check_greek_limits(inv, sm[1], sm[2]))


----------------------------------------------------------------------------
(* DeltaHedger *)

HedgeParams_default ==
    [ target_delta     |-> D(0),
      min_hedge_size   |-> D(1),
      max_hedge_size   |-> D(100),
      hedge_threshold  |-> D(10),
      use_limit_orders |-> TRUE,
      limit_offset_bps |-> D(5) ]

HedgeParamsSet ==
    { HedgeParams_default,
      [HedgeParams_default EXCEPT !.target_delta = D(5), !.min_hedge_size = D(20),
                                  !.max_hedge_size = D(30), !.use_limit_orders = FALSE],
      [HedgeParams_default EXCEPT !.hedge_threshold = D(0), !.min_hedge_size = D(0),
                                  !.max_hedge_size = D(10)] }

HedgeDeltas == { D(-50), D(-15), D(-10), D(-5), D(0), D(5), D(10), D(15), D(50) }

HedgeSpots == { D(2000), D(50000) }

DeltaHedger_new(params) ==
    [ params |-> params, current_delta |-> 0, last_hedge_ms |-> 0 ]

\* seeded fault: the reported delta is accumulated on top of the tracked one
DeltaHedger_update_delta_accumulates(self, greeks) ==
    [self EXCEPT !.current_delta = @ + greeks.delta]

DeltaHedger_update_delta(self, greeks) ==
    [self EXCEPT !.current_delta = greeks.delta]

DeltaHedger_delta_deviation(self) ==
    self.current_delta - self.params.target_delta

DeltaHedger_needs_hedge(self) ==
    Abs(DeltaHedger_delta_deviation(self)) >= self.params.hedge_threshold

HedgeOrder_new(symbol, quantity, limit_price, reason, timestamp_ms) ==
    [ symbol |-> symbol, quantity |-> quantity, limit_price |-> limit_price,
      reason |-> reason, timestamp_ms |-> timestamp_ms ]

\* seeded fault: an oversized hedge is not clamped to max_hedge_size
DeltaHedger_calculate_hedge_unclamped(self, symbol, spot_price, timestamp_ms) ==
    IF ~DeltaHedger_needs_hedge(self)
    THEN None
    ELSE LET quantity == -DeltaHedger_delta_deviation(self)
             offset   == DecDiv(DecMul(spot_price, self.params.limit_offset_bps), D(10000))
         IN  IF Abs(quantity) < self.params.min_hedge_size
             THEN None
             ELSE << HedgeOrder_new(symbol, quantity,
                        IF self.params.use_limit_orders
                        THEN IF quantity > 0 THEN <<spot_price - offset>>
                                             ELSE <<spot_price + offset>>
                        ELSE None,
                        "DeltaThreshold", timestamp_ms) >>

\* Option<HedgeOrder>: None or <<order>>
DeltaHedger_calculate_hedge(self, symbol, spot_price, timestamp_ms) ==
    IF ~DeltaHedger_needs_hedge(self)
    THEN None
    ELSE LET deviation    == DeltaHedger_delta_deviation(self)
             raw_quantity == -deviation
         IN  IF Abs(raw_quantity) < self.params.min_hedge_size
             THEN None
             ELSE LET quantity ==
                          IF Abs(raw_quantity) > self.params.max_hedge_size
                          THEN IF raw_quantity > 0
                               THEN self.params.max_hedge_size
                               ELSE -self.params.max_hedge_size
                          ELSE raw_quantity
                      offset == DecDiv(DecMul(spot_price, self.params.limit_offset_bps),
                                       D(10000))
                      limit_price ==
                          IF self.params.use_limit_orders
                          THEN IF quantity > 0
                               THEN <<spot_price - offset>>
                               ELSE <<spot_price + offset>>
                          ELSE None
                  IN  << HedgeOrder_new(symbol, quantity, limit_price,
                                        "DeltaThreshold", timestamp_ms) >>

DeltaHedger_record_hedge(self, quantity, timestamp_ms) ==
    [self EXCEPT !.current_delta = @ + quantity, !.last_hedge_ms = timestamp_ms]

HedgeOpsLeft == h_loop \/ h_count < MaxHedgeOps

HedgeStep(call, next, ret) ==
    /\ HedgeOpsLeft
    /\ h' = next
    /\ h_pre' = h
    /\ h_call' = call
    /\ h_ret' = ret
    /\ h_count' = IF h_count < MaxHedgeOps THEN h_count + 1 ELSE h_count
    /\ UNCHANGED <<h_loop, riskVars, posVars, invVars, quoteVars, greeksVars, pnlVars, marketVars, bookVars>>

UpdateDelta ==
    \E delta \in HedgeDeltas :
        HedgeStep([op |-> "update_delta", arg |-> delta, ts |-> 0],
                  DeltaHedger_update_delta(h, [Greeks_zero EXCEPT !.delta = delta]), None)

NeedsHedge ==
    HedgeStep([op |-> "needs_hedge", arg |-> 0, ts |-> 0], h,
              <<DeltaHedger_needs_hedge(h)>>)

\* the quantity of the order the last call returned, when it was a
\* calculate_hedge that returned one
OrderedQuantity ==
    { o.quantity : o \in { h_ret[i] : i \in
        IF h_call.op = "calculate_hedge" THEN DOMAIN h_ret ELSE {} } }

\* in a hedging loop the order returned is recorded before the next one is
\* calculated
CalculateHedge ==
    /\ h_loop => OrderedQuantity = {}
    /\ \E spot_price \in HedgeSpots :
        LET ts == 1000 * (h_count + 1)
        IN  HedgeStep([op |-> "calculate_hedge", arg |-> spot_price, ts |-> ts], h,
                      DeltaHedger_calculate_hedge(h, "BTC", spot_price, ts))

\* the caller reports an executed hedge: the order just calculated, or
\* (outside a hedging loop) any fill
RecordHedge ==
    \E quantity \in (IF h_loop THEN {} ELSE HedgeDeltas) \cup OrderedQuantity :
        LET ts == 1000 * (h_count + 1)
        IN  HedgeStep([op |-> "record_hedge", arg |-> quantity, ts |-> ts],
                      DeltaHedger_record_hedge(h, quantity, ts), None)

----------------------------------------------------------------------------
(* QuoteParams, SpreadCalculator, GeneratedQuote *)

\* a Decimal division by zero panics: the call returns nothing
Panic == <<"panic", "Division by zero">>

\* QuoteParams::new: the remaining fields get their defaults
QuoteParams_new(theo_price, inventory, volatility, time_to_expiry) ==
    [ theo_price        |-> theo_price,
      inventory         |-> inventory,
      volatility        |-> volatility,
      time_to_expiry    |-> time_to_expiry,
      risk_aversion     |-> DecDiv(D(1), D(10)),
      arrival_intensity |-> D(1),
      base_spread_vol   |-> DecDiv(D(2), D(100)),
      max_inventory     |-> D(100),
      min_size          |-> D(1),
      max_size          |-> D(10) ]

QuoteParams_with_risk_aversion(self, risk_aversion) ==
    [self EXCEPT !.risk_aversion = risk_aversion]

QuoteParams_with_arrival_intensity(self, arrival_intensity) ==
    [self EXCEPT !.arrival_intensity = arrival_intensity]

QuoteParams_with_max_inventory(self, max_inventory) ==
    [self EXCEPT !.max_inventory = max_inventory]

QuoteParams_with_size_limits(self, min_size, max_size) ==
    [self EXCEPT !.min_size = min_size, !.max_size = max_size]

\* inventory / max_inventory clamped to [-1, 1]
QuoteParams_inventory_ratio(self) ==
    IF self.max_inventory = 0
    THEN 0
    ELSE Min(Max(DecDiv(self.inventory, self.max_inventory), -D(1)), D(1))

QuoteParams_is_inventory_full_long(self) == self.inventory >= self.max_inventory

QuoteParams_is_inventory_full_short(self) == self.inventory <= -self.max_inventory

\* Result<(), String>: <<"Ok">> or <<"Err", message>>
QuoteParams_validate(self) ==
    IF self.theo_price < 0 THEN <<"Err", "theoretical price cannot be negative">>
    ELSE IF self.volatility < 0 THEN <<"Err", "volatility cannot be negative">>
    ELSE IF self.time_to_expiry < 0 THEN <<"Err", "time to expiry cannot be negative">>
    ELSE IF self.risk_aversion <= 0 THEN <<"Err", "risk aversion must be positive">>
    ELSE IF self.arrival_intensity <= 0
         THEN <<"Err", "arrival intensity must be positive">>
    ELSE IF self.max_inventory <= 0 THEN <<"Err", "max inventory must be positive">>
    ELSE IF self.min_size <= 0 THEN <<"Err", "min size must be positive">>
    ELSE IF self.max_size < self.min_size THEN <<"Err", "max size must be >= min size">>
    ELSE <<"Ok">>

\* SpreadCalculator::new() followed by the four with_* builders, which
\* overwrite every field
SpreadCalculator_with(min_spread, max_spread, inventory_skew_factor, volatility_factor) ==
    [ min_spread            |-> min_spread,
      max_spread            |-> max_spread,
      inventory_skew_factor |-> inventory_skew_factor,
      volatility_factor     |-> volatility_factor ]

\* ln(1+x): three Taylor terms for |x| < 0.5, x / (1 + x/2) otherwise
SpreadCalculator_approximate_ln_1_plus_x(self, x) ==
    IF Abs(x) < DecDiv(D(1), D(2))
    THEN LET x2 == DecMul(x, x)
             x3 == DecMul(x2, x)
         IN  x - DecDiv(x2, D(2)) + DecDiv(x3, D(3))
    ELSE DecDiv(x, D(1) + DecDiv(x, D(2)))

\* the divisions of optimal_spread that panic: gamma / k, 2 / gamma and,
\* in the rational branch of the logarithm, x / (1 + x/2)
SpreadCalculator_optimal_spread_panics(self, params) ==
    \/ params.arrival_intensity = 0
    \/ params.risk_aversion = 0
    \/ LET x == DecDiv(params.risk_aversion, params.arrival_intensity)
       IN  Abs(x) >= DecDiv(D(1), D(2)) /\ D(1) + DecDiv(x, D(2)) = 0

\* seeded fault: the variance term is subtracted from the intensity term
SpreadCalculator_adjusted_spread_less_variance(self, params) ==
    LET gamma == params.risk_aversion
        sigma == params.volatility
        tau   == params.time_to_expiry
        k     == params.arrival_intensity
        variance_term  == DecMul(DecMul(DecMul(gamma, sigma), sigma), tau)
        ln_term == SpreadCalculator_approximate_ln_1_plus_x(self, DecDiv(gamma, k))
        intensity_term == DecMul(DecDiv(D(2), gamma), ln_term)
    IN  DecMul(intensity_term - variance_term, self.volatility_factor)

\* optimal_spread up to "adjusted_spread": the spread prior to clamping
SpreadCalculator_adjusted_spread(self, params) ==
    LET gamma == params.risk_aversion
        sigma == params.volatility
        tau   == params.time_to_expiry
        k     == params.arrival_intensity
        variance_term  == DecMul(DecMul(DecMul(gamma, sigma), sigma), tau)
        gamma_over_k   == DecDiv(gamma, k)
        ln_term        == SpreadCalculator_approximate_ln_1_plus_x(self, gamma_over_k)
        intensity_term == DecMul(DecDiv(D(2), gamma), ln_term)
        base_spread    == variance_term + intensity_term
    IN  DecMul(base_spread, self.volatility_factor)

\* seeded fault: the spread is capped at max_spread but has no floor
SpreadCalculator_optimal_spread_no_floor(self, params) ==
    Min(SpreadCalculator_adjusted_spread(self, params), self.max_spread)

\* adjusted_spread.max(min_spread).min(max_spread)
SpreadCalculator_optimal_spread(self, params) ==
    Min(Max(SpreadCalculator_adjusted_spread(self, params), self.min_spread),
        self.max_spread)

SpreadCalculator_inventory_skew(self, params) ==
    LET q     == params.inventory
        gamma == params.risk_aversion
        sigma == params.volatility
        tau   == params.time_to_expiry
    IN  DecMul(DecMul(DecMul(DecMul(DecMul(q, gamma), sigma), sigma), tau),
               self.inventory_skew_factor)

\* seeded fault: the skewed sizes are not clamped to the size limits
SpreadCalculator_calculate_sizes_unclamped(self, params) ==
    LET base_size       == DecDiv(params.min_size + params.max_size, D(2))
        inventory_ratio == QuoteParams_inventory_ratio(params)
        size_adjustment == DecDiv(DecMul(base_size, Abs(inventory_ratio)), D(2))
        bid == IF inventory_ratio > 0 THEN base_size - size_adjustment
               ELSE IF inventory_ratio < 0 THEN base_size + size_adjustment
               ELSE base_size
        ask == IF inventory_ratio > 0 THEN base_size + size_adjustment
               ELSE IF inventory_ratio < 0 THEN base_size - size_adjustment
               ELSE base_size
    IN  << IF QuoteParams_is_inventory_full_long(params) THEN 0 ELSE bid,
           IF QuoteParams_is_inventory_full_short(params) THEN 0 ELSE ask >>

\* <<bid_size, ask_size>>
SpreadCalculator_calculate_sizes(self, params) ==
    LET base_size       == DecDiv(params.min_size + params.max_size, D(2))
        inventory_ratio == QuoteParams_inventory_ratio(params)
        size_adjustment == DecDiv(DecMul(base_size, Abs(inventory_ratio)), D(2))
        skewed == IF inventory_ratio > 0
                  THEN <<base_size - size_adjustment, base_size + size_adjustment>>
                  ELSE IF inventory_ratio < 0
                  THEN <<base_size + size_adjustment, base_size - size_adjustment>>
                  ELSE <<base_size, base_size>>
        bid_size == Min(Max(skewed[1], params.min_size), params.max_size)
        ask_size == Min(Max(skewed[2], params.min_size), params.max_size)
    IN  << IF QuoteParams_is_inventory_full_long(params) THEN 0 ELSE bid_size,
           IF QuoteParams_is_inventory_full_short(params) THEN 0 ELSE ask_size >>

GeneratedQuote_new(bid_price, bid_size, ask_price, ask_size, theo_price, skew, timestamp_ms) ==
    [ bid_price    |-> bid_price,
      bid_size     |-> bid_size,
      ask_price    |-> ask_price,
      ask_size     |-> ask_size,
      theo_price   |-> theo_price,
      spread       |-> ask_price - bid_price,
      skew         |-> skew,
      timestamp_ms |-> timestamp_ms ]

SpreadCalculator_generate_quote(self, params, timestamp_ms) ==
    LET half_spread == DecDiv(SpreadCalculator_optimal_spread(self, params), D(2))
        skew        == SpreadCalculator_inventory_skew(self, params)
        theo        == params.theo_price
        reservation_price == theo - skew
        bid_price   == Max(reservation_price - half_spread, 0)
        ask_price   == reservation_price + half_spread
        sizes       == SpreadCalculator_calculate_sizes(self, params)
    IN  GeneratedQuote_new(bid_price, sizes[1], ask_price, sizes[2], theo, skew,
                           timestamp_ms)

\* calculators a desk configures: tight, wide with a doubled volatility
\* factor, one whose floor was raised above the ceiling, one with a
\* negative volatility factor
SpreadCalculatorSet ==
    { SpreadCalculator_with(DecDiv(D(2), D(10)), D(1), DecDiv(D(1), D(10)), D(1)),
      SpreadCalculator_with(DecDiv(D(2), D(10)), D(10), D(1), D(2)),
      SpreadCalculator_with(D(2), D(1), DecDiv(D(1), D(10)), D(1)),
      SpreadCalculator_with(DecDiv(D(2), D(10)), D(10), DecDiv(D(1), D(10)), D(-1)) }

Volatilities == { D(-1), D(0), D(1), D(2) }

\* QuoteParams::new(theo, inventory, sigma, tau) followed by the builders;
\* the values include the ones validate() rejects.  The last three are
\* <<max_inventory, min_size, max_size>>.
QuoteParamsSet ==
    { QuoteParams_with_size_limits(
        QuoteParams_with_max_inventory(
          QuoteParams_with_arrival_intensity(
            QuoteParams_with_risk_aversion(
              QuoteParams_new(theo, q, sigma, tau), gamma), k), sl[1]), sl[2], sl[3]) :
      theo \in { D(0), D(5) },
      q \in { D(-10), D(0), D(5), D(10) },
      sigma \in Volatilities,
      tau \in { D(0), D(1) },
      gamma \in { D(-1), D(0), D(1) },
      k \in { D(0), D(1), D(5) },
      sl \in { <<D(10), D(1), D(10)>>, <<D(10), D(2), D(2)>>, <<D(5), D(1), D(10)>>,
               <<D(10), D(5), D(1)>> } }

QuoteStep(call, params, ret, pre) ==
    /\ qp' = params
    /\ q_call' = call
    /\ q_ret' = ret
    /\ q_pre' = pre
    /\ UNCHANGED <<sc, riskVars, posVars, invVars, hedgeVars, greeksVars, pnlVars, marketVars, bookVars>>

\* params.validate()
Validate ==
    QuoteStep([op |-> "validate", params |-> qp, ts |-> 0], qp,
              <<QuoteParams_validate(qp)>>, None)

\* the caller rebuilds its QuoteParams with the latest implied volatility
\* and asks for the spread
OptimalSpread ==
    \E volatility \in Volatilities :
        LET params == [qp EXCEPT !.volatility = volatility]
        IN  QuoteStep([op |-> "optimal_spread", params |-> params, ts |-> 0], params,
                      IF SpreadCalculator_optimal_spread_panics(sc, params)
                      THEN Panic
                      ELSE <<SpreadCalculator_optimal_spread(sc, params)>>,
                      IF q_call.op = "optimal_spread" /\ q_ret # Panic
                      THEN <<q_call.params, q_ret[1]>>
                      ELSE None)

GenerateQuote ==
    QuoteStep([op |-> "generate_quote", params |-> qp, ts |-> 1000], qp,
              IF SpreadCalculator_optimal_spread_panics(sc, qp)
              THEN Panic
              ELSE <<SpreadCalculator_generate_quote(sc, qp, 1000)>>,
              None)

----------------------------------------------------------------------------
(* Greeks, PnLAttribution *)

\* seeded fault: the rho P&L is left out of the explained sum
PnLAttribution_calculate_without_rho(greeks, spot_change, vol_change, days_passed, rate_change, actual_pnl) ==
    LET delta_pnl == DecMul(greeks.delta, spot_change)
        gamma_pnl == DecDiv(DecMul(DecMul(greeks.gamma, spot_change), spot_change), D(2))
        theta_pnl == DecMul(greeks.theta, days_passed)
        vega_pnl  == DecMul(greeks.vega, vol_change)
        rho_pnl   == DecMul(greeks.rho, rate_change)
    IN  [ delta_pnl |-> delta_pnl, gamma_pnl |-> gamma_pnl, theta_pnl |-> theta_pnl,
          vega_pnl |-> vega_pnl, rho_pnl |-> rho_pnl,
          unexplained_pnl |-> actual_pnl - (delta_pnl + gamma_pnl + theta_pnl + vega_pnl) ]

PnLAttribution_calculate(greeks, spot_change, vol_change, days_passed, rate_change, actual_pnl) ==
    LET delta_pnl == DecMul(greeks.delta, spot_change)
        gamma_pnl == DecDiv(DecMul(DecMul(greeks.gamma, spot_change), spot_change), D(2))
        theta_pnl == DecMul(greeks.theta, days_passed)
        vega_pnl  == DecMul(greeks.vega, vol_change)
        rho_pnl   == DecMul(greeks.rho, rate_change)
        explained == delta_pnl + gamma_pnl + theta_pnl + vega_pnl + rho_pnl
        unexplained_pnl == actual_pnl - explained
    IN  [ delta_pnl |-> delta_pnl, gamma_pnl |-> gamma_pnl, theta_pnl |-> theta_pnl,
          vega_pnl |-> vega_pnl, rho_pnl |-> rho_pnl,
          unexplained_pnl |-> unexplained_pnl ]

PnLAttribution_explained_pnl(self) ==
    self.delta_pnl + self.gamma_pnl + self.theta_pnl + self.vega_pnl + self.rho_pnl

GreeksStep(call, ret) ==
    /\ g_count < MaxGreeksOps
    /\ g_call' = call
    /\ g_ret' = ret
    /\ g_count' = g_count + 1
    /\ UNCHANGED <<riskVars, posVars, invVars, hedgeVars, quoteVars, pnlVars, marketVars, bookVars>>

\* << (g1 + g2) + g3, g1 + (g2 + g3), g1 + Greeks::zero() >>
AddGreeks ==
    \E g1 \in GreeksSet, g2 \in GreeksSet, g3 \in GreeksSet :
        GreeksStep([op |-> "add", n |-> g_count + 1, g1 |-> g1, g2 |-> g2, g3 |-> g3],
                   << Greeks_add(Greeks_add(g1, g2), g3),
                      Greeks_add(g1, Greeks_add(g2, g3)),
                      Greeks_add(g1, Greeks_zero) >>)

\* iter.sum::<Greeks>() over up to three Greeks
SumGreeks ==
    \E n \in 0..3 : \E iter \in [1..n -> GreeksSet] :
        GreeksStep([op |-> "sum", n |-> g_count + 1, iter |-> iter], Greeks_sum(iter))

Calculate ==
    \E greeks \in GreeksSet, spot_change \in { D(-10), D(0), D(10) },
       vol_change \in { D(0), D(1) }, days_passed \in { D(0), D(1) },
       rate_change \in { D(0), D(1) }, actual_pnl \in { D(-6), D(0), D(6) } :
        GreeksStep([op |-> "calculate", n |-> g_count + 1, greeks |-> greeks,
                    spot_change |-> spot_change, vol_change |-> vol_change,
                    days_passed |-> days_passed, rate_change |-> rate_change,
                    actual_pnl |-> actual_pnl],
                   PnLAttribution_calculate(greeks, spot_change, vol_change,
                                            days_passed, rate_change, actual_pnl))

----------------------------------------------------------------------------
(* PnLCalculator *)

PnLCalculator_new == [ realized_pnl |-> 0, unrealized_pnl |-> 0, total_fees |-> 0 ]

PnLCalculator_total_pnl(self) ==
    self.realized_pnl + self.unrealized_pnl - self.total_fees

PnLCalculator_net_realized_pnl(self) == self.realized_pnl - self.total_fees

PnLCalculator_add_realized(self, amount) ==
    [self EXCEPT !.realized_pnl = @ + amount]

\* seeded fault: the unrealized P&L is accumulated
PnLCalculator_update_unrealized_accumulates(self, amount) ==
    [self EXCEPT !.unrealized_pnl = @ + amount]

PnLCalculator_update_unrealized(self, amount) ==
    [self EXCEPT !.unrealized_pnl = amount]

PnLCalculator_add_fees(self, amount) ==
    [self EXCEPT !.total_fees = @ + amount]

PnLCalculator_reset(self) == PnLCalculator_new

PnlAmounts == { D(-50), D(10), D(100) }

PnlStep(next, log) ==
    /\ pc_count < MaxPnlOps
    /\ pc' = next
    /\ pc_log' = log
    /\ pc_count' = pc_count + 1
    /\ UNCHANGED <<riskVars, posVars, invVars, hedgeVars, quoteVars, greeksVars, marketVars, bookVars>>

AddRealized ==
    \E amount \in PnlAmounts :
        PnlStep(PnLCalculator_add_realized(pc, amount),
                Append(pc_log, [op |-> "add_realized", n |-> pc_count + 1, amount |-> amount]))

UpdateUnrealized ==
    \E amount \in PnlAmounts :
        PnlStep(PnLCalculator_update_unrealized(pc, amount),
                Append(pc_log, [op |-> "update_unrealized", n |-> pc_count + 1, amount |-> amount]))

AddFees ==
    \E amount \in PnlAmounts :
        PnlStep(PnLCalculator_add_fees(pc, amount),
                Append(pc_log, [op |-> "add_fees", n |-> pc_count + 1, amount |-> amount]))

ResetPnl == PnlStep(PnLCalculator_reset(pc), <<>>)

----------------------------------------------------------------------------
(* MarketDataHandler *)

\* Option::Some
Some(x) == <<x>>

\* HashMap::insert on a map kept as a function
Insert(map, key, value) ==
    [k \in DOMAIN map \cup {key} |-> IF k = key THEN value ELSE map[k]]

MarketSymbols == { "BTC", "ETH" }

MarketDataHandler_new == [ ticks |-> << >>, sequences |-> << >> ]

\* seeded fault: an update repeating the last sequence number is applied
MarketDataHandler_process_update_accepts_duplicate(self, update) ==
    LET last_seq == IF update.symbol \in DOMAIN self.sequences
                    THEN self.sequences[update.symbol] ELSE 0
    IN  IF update.sequence < last_seq
        THEN <<self, FALSE>>
        ELSE << [ ticks     |-> Insert(self.ticks, update.symbol, update.tick),
                  sequences |-> Insert(self.sequences, update.symbol, update.sequence) ],
                TRUE >>

\* <<handler afterwards, bool returned>>
MarketDataHandler_process_update(self, update) ==
    LET last_seq == IF update.symbol \in DOMAIN self.sequences
                    THEN self.sequences[update.symbol] ELSE 0
    IN  IF update.sequence <= last_seq
        THEN <<self, FALSE>>
        ELSE << [ ticks     |-> Insert(self.ticks, update.symbol, update.tick),
                  sequences |-> Insert(self.sequences, update.symbol, update.sequence) ],
                TRUE >>

MarketDataHandler_get_tick(self, symbol) ==
    IF symbol \in DOMAIN self.ticks THEN Some(self.ticks[symbol]) ELSE None

MarketDataHandler_clear(self) == [ ticks |-> << >>, sequences |-> << >> ]

MarketStep(name, update, next, ret) ==
    /\ md_call[3] < MaxMarketOps
    /\ md' = next
    /\ md_pre' = md
    /\ md_call' = <<name, update, md_call[3] + 1>>
    /\ md_ret' = ret
    /\ UNCHANGED <<riskVars, posVars, invVars, hedgeVars, quoteVars, greeksVars, pnlVars,
                   bookVars>>

ProcessUpdate ==
    \E symbol \in MarketSymbols, sequence \in 0..MaxSequence, bid \in { 50000, 50005 } :
        LET update == [ symbol   |-> symbol,
                        tick     |-> [ bid_price |-> Some(bid), bid_size |-> 10,
                                       ask_price |-> Some(bid + 10), ask_size |-> 5,
                                       last_price |-> None, last_size |-> 0,
                                       timestamp_ms |-> 1000 * (md_call[3] + 1) ],
                        sequence |-> sequence ]
            r == MarketDataHandler_process_update(md, update)
        IN  /\ MarketStep("process_update", update, r[1], r[2])
            /\ md_applied' = IF r[2]
                             THEN [md_applied EXCEPT ![symbol] = Append(@, sequence)]
                             ELSE md_applied
            /\ md_fresh' = IF r[2]
                           THEN [md_fresh EXCEPT ![symbol] = Append(@, sequence)]
                           ELSE md_fresh

ClearMarketData ==
    /\ MarketStep("clear", None, MarketDataHandler_clear(md), None)
    /\ md_fresh' = [symbol \in MarketSymbols |-> << >>]
    /\ UNCHANGED md_applied

----------------------------------------------------------------------------
(* OptionOrderBookManager *)

BookSymbols == { "BTC-20240329-50000-C", "BTC-20240329-50000-P", "BTC-20240329-55000-C" }

\* DefaultHasher folds every symbol string into a u64, so two different
\* symbols can have the same hash; of the three symbols the first and the
\* third stand for such a pair.
OptionOrderBook_hash_symbol(symbol) ==
    CASE symbol = "BTC-20240329-50000-C" -> 17
      [] symbol = "BTC-20240329-50000-P" -> 23
      [] symbol = "BTC-20240329-55000-C" -> 17

SymbolHashes == { OptionOrderBook_hash_symbol(symbol) : symbol \in BookSymbols }

\* the order data of a book plays no part in the manager's indexes
OptionOrderBook_new(symbol) ==
    [ symbol |-> symbol, symbol_hash |-> OptionOrderBook_hash_symbol(symbol) ]

OptionOrderBookManager_new == [ books |-> << >>, books_by_hash |-> << >> ]

OptionOrderBookManager_len(self) == Cardinality(DOMAIN self.books)

\* seeded fault: a new book is not entered in the hash index
OptionOrderBookManager_get_or_create_unindexed(self, symbol) ==
    LET next == IF symbol \notin DOMAIN self.books
                THEN [self EXCEPT !.books = Insert(self.books, symbol,
                                                   OptionOrderBook_new(symbol))]
                ELSE self
    IN  <<next, next.books[symbol]>>

\* <<manager afterwards, the book the returned reference points to>>
OptionOrderBookManager_get_or_create(self, symbol) ==
    LET next == IF symbol \notin DOMAIN self.books
                THEN LET book == OptionOrderBook_new(symbol)
                     IN  [ books_by_hash |-> Insert(self.books_by_hash, book.symbol_hash, symbol),
                           books         |-> Insert(self.books, symbol, book) ]
                ELSE self
    IN  <<next, next.books[symbol]>>

OptionOrderBookManager_get(self, symbol) ==
    IF symbol \in DOMAIN self.books THEN Some(self.books[symbol]) ELSE None

OptionOrderBookManager_get_by_hash(self, hash) ==
    IF hash \in DOMAIN self.books_by_hash
    THEN OptionOrderBookManager_get(self, self.books_by_hash[hash])
    ELSE None

\* <<manager afterwards, Option of the removed book>>
OptionOrderBookManager_remove(self, symbol) ==
    IF symbol \in DOMAIN self.books
    THEN LET book == self.books[symbol]
         IN  << [ books         |-> [k \in DOMAIN self.books \ {symbol} |-> self.books[k]],
                  books_by_hash |-> [k \in DOMAIN self.books_by_hash \ {book.symbol_hash} |->
                                        self.books_by_hash[k]] ],
                Some(book) >>
    ELSE <<self, None>>

OptionOrderBookManager_clear(self) == [ books |-> << >>, books_by_hash |-> << >> ]

BookStep(name, arg, next, ret) ==
    /\ ob_call[3] < MaxBookOps
    /\ ob' = next
    /\ ob_pre' = ob
    /\ ob_call' = <<name, arg, ob_call[3] + 1>>
    /\ ob_ret' = ret
    /\ UNCHANGED <<riskVars, posVars, invVars, hedgeVars, quoteVars, greeksVars, pnlVars,
                   marketVars>>

GetOrCreateBook ==
    \E symbol \in BookSymbols :
        LET r == OptionOrderBookManager_get_or_create(ob, symbol)
        IN  /\ BookStep("get_or_create", symbol, r[1], r[2])
            /\ ob_seen' = ob_seen \cup {symbol}

RemoveBook ==
    \E symbol \in BookSymbols :
        LET r == OptionOrderBookManager_remove(ob, symbol)
        IN  /\ BookStep("remove", symbol, r[1], r[2])
            /\ UNCHANGED ob_seen

ClearBooks ==
    /\ BookStep("clear", None, OptionOrderBookManager_clear(ob), None)
    /\ UNCHANGED ob_seen

GetByHash ==
    \E hash \in SymbolHashes :
        /\ BookStep("get_by_hash", hash, ob, OptionOrderBookManager_get_by_hash(ob, hash))
        /\ UNCHANGED ob_seen

----------------------------------------------------------------------------
(* Specifications: one per component; the other components stay idle *)

IdleMarket ==
    /\ md = MarketDataHandler_new
    /\ md_pre = md
    /\ md_call = <<"new", None, 0>>
    /\ md_ret = None
    /\ md_applied = [symbol \in MarketSymbols |-> << >>]
    /\ md_fresh = md_applied

IdleBooks ==
    /\ ob = OptionOrderBookManager_new
    /\ ob_pre = ob
    /\ ob_call = <<"new", None, 0>>
    /\ ob_ret = None
    /\ ob_seen = {}

IdleRisk ==
    /\ rc = RiskController_new
    /\ rc_limits = [max_daily_loss |-> D(10), max_drawdown |-> D(15),
                    max_position_value |-> D(10), max_delta |-> D(5),
                    max_gamma |-> D(1), max_vega |-> D(20)]
    /\ rc_call = <<"new", 0, 0>>
    /\ rc_pre = RiskController_new
    /\ rc_reports = {}
    /\ rc_all = {}

IdlePosition ==
    /\ pos = Position_new(D(1))
    /\ pos_entry = [op |-> "new", quantity |-> 0, price |-> 0, ts |-> 0]
    /\ pos_pre = pos
    /\ pos_call = pos_entry
    /\ pos_ret = 0
    /\ pos_count = 0
    /\ pos_trades = << >>
    /\ pos_run = [max |-> 0, quantities |-> {}, prices |-> {}]

IdleInventory ==
    /\ inv = InventoryManager_new(PositionLimits_new(D(10), D(20), D(50), D(100)), D(100))
    /\ inv_pre = inv
    /\ inv_call = [op |-> "new", symbol |-> "", quantity |-> 0, price |-> 0, ts |-> 0]
    /\ inv_ret = Ok
    /\ inv_count = 0
    /\ inv_max = 0

IdleHedger ==
    /\ h = DeltaHedger_new(HedgeParams_default)
    /\ h_pre = h
    /\ h_call = [op |-> "new", arg |-> 0, ts |-> 0]
    /\ h_ret = None
    /\ h_count = 0
    /\ h_loop = FALSE

IdleQuote ==
    /\ sc = SpreadCalculator_with(DecDiv(D(2), D(10)), D(1), DecDiv(D(1), D(10)), D(1))
    /\ qp = QuoteParams_new(D(5), D(0), D(1), D(1))
    /\ q_call = [op |-> "new", params |-> qp, ts |-> 0]
    /\ q_ret = None
    /\ q_pre = None

IdleGreeks ==
    /\ g_call = [op |-> "zero", n |-> 0]
    /\ g_ret = Greeks_zero
    /\ g_count = 0

IdlePnl ==
    /\ pc = PnLCalculator_new
    /\ pc_log = <<>>
    /\ pc_count = 0

InitRisk ==
    /\ rc = RiskController_new
    /\ rc_limits \in RiskLimitsSet
    /\ rc_call = <<"new", 0, 0>>
    /\ rc_pre = RiskController_new
    /\ rc_reports = {}
    /\ rc_all = {}
    /\ IdlePosition /\ IdleInventory /\ IdleHedger /\ IdleQuote
    /\ IdleGreeks /\ IdlePnl
    /\ IdleMarket /\ IdleBooks

NextRisk ==
    \/ UpdatePnl
    \/ UpdatePositionValue
    \/ Halt
    \/ Resume
    \/ ResetDaily
    \/ CheckRiskGreekLimits

SpecRisk == InitRisk /\ [][NextRisk]_vars

\* a controller whose owner never calls resume()
NextRiskNoResume ==
    \/ UpdatePnl
    \/ UpdatePositionValue
    \/ Halt
    \/ ResetDaily
    \/ CheckRiskGreekLimits

SpecRiskNoResume == InitRisk /\ [][NextRiskNoResume]_vars

\* Position::new(m) or Position::with_entry(q, p, m, t)
InitPosition ==
    /\ \E multiplier \in Multipliers :
         \/ /\ pos = Position_new(multiplier)
            /\ pos_entry = [op |-> "new", quantity |-> 0, price |-> 0, ts |-> 0]
         \/ \E quantity \in EntryQuantities, price \in EntryPrices :
              /\ pos = Position_with_entry(quantity, price, multiplier, 1000)
              /\ pos_entry = [op |-> "with_entry", quantity |-> quantity,
                              price |-> price, ts |-> 1000]
    /\ pos_pre = pos
    /\ pos_call = pos_entry
    /\ pos_ret = 0
    /\ pos_count = 0
    /\ pos_trades = << >>
    /\ pos_run = [max |-> MaxPosOps, quantities |-> TradeQuantities, prices |-> Prices]
    /\ IdleRisk /\ IdleInventory /\ IdleHedger /\ IdleQuote
    /\ IdleGreeks /\ IdlePnl
    /\ IdleMarket /\ IdleBooks

NextPosition ==
    \/ Add
    \/ Reduce
    \/ Close
    \/ Reset

SpecPosition == InitPosition /\ [][NextPosition]_vars

\* a position that starts flat and is changed by add / reduce trades only
InitTrades ==
    /\ \E multiplier \in Multipliers : pos = Position_new(multiplier)
    /\ pos_entry = [op |-> "new", quantity |-> 0, price |-> 0, ts |-> 0]
    /\ pos_pre = pos
    /\ pos_call = pos_entry
    /\ pos_ret = 0
    /\ pos_count = 0
    /\ pos_trades = << >>
    /\ pos_run = [max |-> MaxTradeOps, quantities |-> SequenceQuantities, prices |-> SequencePrices]
    /\ IdleRisk /\ IdleInventory /\ IdleHedger /\ IdleQuote
    /\ IdleGreeks /\ IdlePnl
    /\ IdleMarket /\ IdleBooks

NextTrades ==
    \/ Add
    \/ Reduce

SpecTrades == InitTrades /\ [][NextTrades]_vars

InitInventory ==
    /\ \E limits \in PositionLimitsSet :
         inv = InventoryManager_new(limits, D(100))
    /\ inv_pre = inv
    /\ inv_call = [op |-> "new", symbol |-> "", quantity |-> 0, price |-> 0, ts |-> 0]
    /\ inv_ret = Ok
    /\ inv_count = 0
    /\ inv_max = MaxInvOps
    /\ IdleRisk /\ IdlePosition /\ IdleHedger /\ IdleQuote
    /\ IdleGreeks /\ IdlePnl
    /\ IdleMarket /\ IdleBooks

NextInventory ==
    \/ RecordTrade
    \/ GetOrCreatePosition
    \/ RemovePosition
    \/ CheckGreekLimits

SpecInventory == InitInventory /\ [][NextInventory]_vars

\* The manager's Greeks path: positions are opened, repriced, checked against
\* the ceilings and removed. A trade leaves a position's Greeks as they are.
InitGreekLimits ==
    /\ \E limits \in PositionLimitsSet :
         inv = InventoryManager_new(limits, D(100))
    /\ inv_pre = inv
    /\ inv_call = [op |-> "new", symbol |-> "", quantity |-> 0, price |-> 0, ts |-> 0]
    /\ inv_ret = Ok
    /\ inv_count = 0
    /\ inv_max = MaxGreekLimitOps
    /\ IdleRisk /\ IdlePosition /\ IdleHedger /\ IdleQuote
    /\ IdleGreeks /\ IdlePnl
    /\ IdleMarket /\ IdleBooks

NextGreekLimits ==
    \/ GetOrCreatePosition
    \/ RemovePosition
    \/ UpdateGreeks
    \/ CheckGreekLimits

SpecGreekLimits == InitGreekLimits /\ [][NextGreekLimits]_vars

InitHedger ==
    /\ \E params \in HedgeParamsSet : h = DeltaHedger_new(params)
    /\ h_pre = h
    /\ h_call = [op |-> "new", arg |-> 0, ts |-> 0]
    /\ h_ret = None
    /\ h_count = 0
    /\ h_loop = FALSE
    /\ IdleRisk /\ IdlePosition /\ IdleInventory /\ IdleQuote
    /\ IdleGreeks /\ IdlePnl
    /\ IdleMarket /\ IdleBooks

NextHedger ==
    \/ UpdateDelta
    \/ NeedsHedge
    \/ CalculateHedge
    \/ RecordHedge

SpecHedger == InitHedger /\ [][NextHedger]_vars

\* the hedging loop: a hedger whose delta was set by update_delta, after which
\* the caller only calculates hedges and records each order it gets; the
\* caller keeps going, so a step that stays possible is taken
InitHedgeLoop ==
    /\ \E params \in HedgeParamsSet, delta \in HedgeDeltas :
          /\ params.max_hedge_size > 0
          /\ h = DeltaHedger_update_delta(DeltaHedger_new(params),
                                          [Greeks_zero EXCEPT !.delta = delta])
          /\ h_pre = DeltaHedger_new(params)
          /\ h_call = [op |-> "update_delta", arg |-> delta, ts |-> 0]
    /\ h_ret = None
    /\ h_count = 0
    /\ h_loop = TRUE
    /\ IdleRisk /\ IdlePosition /\ IdleInventory /\ IdleQuote
    /\ IdleGreeks /\ IdlePnl
    /\ IdleMarket /\ IdleBooks

NextHedgeLoop ==
    \/ CalculateHedge
    \/ RecordHedge

SpecHedgeLoop == InitHedgeLoop /\ [][NextHedgeLoop]_vars /\ WF_vars(NextHedgeLoop)

InitQuote ==
    /\ sc \in SpreadCalculatorSet
    /\ qp \in QuoteParamsSet
    /\ q_call = [op |-> "new", params |-> qp, ts |-> 0]
    /\ q_ret = None
    /\ q_pre = None
    /\ IdleRisk /\ IdlePosition /\ IdleInventory /\ IdleHedger
    /\ IdleGreeks /\ IdlePnl
    /\ IdleMarket /\ IdleBooks

NextQuote ==
    \/ Validate
    \/ OptimalSpread
    \/ GenerateQuote

SpecQuote == InitQuote /\ [][NextQuote]_vars

InitGreeks ==
    /\ IdleGreeks
    /\ IdleRisk /\ IdlePosition /\ IdleInventory /\ IdleHedger /\ IdleQuote /\ IdlePnl
    /\ IdleMarket /\ IdleBooks

NextGreeks ==
    \/ AddGreeks
    \/ SumGreeks
    \/ Calculate

SpecGreeks == InitGreeks /\ [][NextGreeks]_vars

InitPnl ==
    /\ IdlePnl
    /\ IdleRisk /\ IdlePosition /\ IdleInventory /\ IdleHedger /\ IdleQuote /\ IdleGreeks
    /\ IdleMarket /\ IdleBooks

NextPnl ==
    \/ AddRealized
    \/ UpdateUnrealized
    \/ AddFees
    \/ ResetPnl

SpecPnl == InitPnl /\ [][NextPnl]_vars

InitMarket ==
    /\ IdleMarket /\ IdleBooks
    /\ IdleRisk /\ IdlePosition /\ IdleInventory /\ IdleHedger /\ IdleQuote
    /\ IdleGreeks /\ IdlePnl

NextMarket ==
    \/ ProcessUpdate
    \/ ClearMarketData

SpecMarket == InitMarket /\ [][NextMarket]_vars

NextBooks ==
    \/ GetOrCreateBook
    \/ RemoveBook
    \/ ClearBooks
    \/ GetByHash

SpecBooks == InitMarket /\ [][NextBooks]_vars

----------------------------------------------------------------------------
(* Properties of the RiskController (checked under SpecRisk) *)

\* C2: once halted the controller stays halted through every call other than
\* resume(); resume() returns it to active.
C2_HaltSticky ==
    /\ (rc_pre.is_halted /\ rc_call[1] # "resume") => rc.is_halted
    /\ rc_call[1] = "resume" => ~rc.is_halted

\* a halted controller received an improved, in-limit P&L and is still halted
C2_Witness ==
    /\ rc_pre.is_halted
    /\ rc_pre.halt_reason[1] = "Daily loss limit exceeded"
    /\ rc_call[1] = "update_pnl"
    /\ rc_call[2] > rc_pre.daily_pnl
    /\ rc.daily_pnl >= -rc_limits.max_daily_loss
    /\ rc.peak_pnl - rc.daily_pnl <= rc_limits.max_drawdown
    /\ rc.is_halted

\* update_position_value(v) from the active state halts exactly when
\* |v| > max_position_value
PositionValueHaltsExactly ==
    (rc_call[1] = "update_position_value" /\ ~rc_pre.is_halted) =>
        (rc.is_halted <=> Abs(rc_call[2]) > rc_limits.max_position_value)

\* C3 as stated: update_pnl(pnl) from the active state halts exactly when
\* pnl < -max_daily_loss or (peak - pnl) > max_drawdown, peak being the
\* running maximum of the reported P&L values.
C3_Original ==
    /\ (rc_call[1] = "update_pnl" /\ ~rc_pre.is_halted) =>
          (rc.is_halted <=>
              \/ rc_call[2] < -rc_limits.max_daily_loss
              \/ SetMax(rc_all) - rc_call[2] > rc_limits.max_drawdown)
    /\ PositionValueHaltsExactly

\* C3 amended: the same, peak_pnl being the maximum of zero and the P&L
\* values reported since construction or the last reset_daily().
C3_HaltExactlyOnBreach ==
    /\ rc.peak_pnl = SetMax({0} \cup rc_reports)
    /\ (rc_call[1] = "update_pnl" /\ ~rc_pre.is_halted) =>
          (rc.is_halted <=>
              \/ rc_call[2] < -rc_limits.max_daily_loss
              \/ SetMax({0} \cup rc_reports) - rc_call[2] > rc_limits.max_drawdown)
    /\ PositionValueHaltsExactly

\* an active controller whose every reported P&L is negative halts on the
\* drawdown from zero while the daily loss is exactly at its limit
C3_Witness ==
    /\ rc_call[1] = "update_pnl"
    /\ ~rc_pre.is_halted
    /\ \A p \in rc_all : p < 0
    /\ rc.daily_pnl = -rc_limits.max_daily_loss
    /\ rc.is_halted
    /\ rc.halt_reason[1] = "Drawdown limit exceeded"

\* C4: in every reachable state is_halted() is true exactly when
\* halt_reason() is present.
C4_HaltedIffReason ==
    RiskController_is_halted(rc) <=> (RiskController_halt_reason(rc) # None)

\* resume() took a halted controller, with its reason, back to active
C4_Witness ==
    /\ rc_call[1] = "resume"
    /\ rc_pre.is_halted
    /\ rc_pre.halt_reason # None
    /\ ~rc.is_halted
    /\ rc.halt_reason = None

----------------------------------------------------------------------------
(* Properties of Position (checked under SpecPosition) *)

\* the signed quantity the last add / reduce call traded (reduce(q) = add(-q))
TradeQty ==
    IF pos_call.op = "add" THEN pos_call.quantity
    ELSE IF pos_call.op = "reduce" THEN -pos_call.quantity
    ELSE 0

IsTrade == pos_count > 0 /\ pos_call.op \in {"add", "reduce"}

OppositeTrade ==
    IsTrade /\ TradeQty # 0 /\ pos_pre.quantity # 0
            /\ Signum(TradeQty) # Signum(pos_pre.quantity)

SameDirectionTrade ==
    IsTrade /\ TradeQty # 0
            /\ (pos_pre.quantity = 0 \/ Signum(TradeQty) = Signum(pos_pre.quantity))

\* C5: a trade against an open quantity Q realizes
\* min(|qty|,|Q|) * (price - old average) * multiplier * sign(Q); a trade not
\* larger than |Q| reduces the quantity, keeps the average price and recomputes
\* the cost basis from it; a larger one leaves the remainder on the other side
\* at average price = price.
C5_ReduceOrFlip ==
    OppositeTrade =>
        LET Q         == pos_pre.quantity
            close_qty == Min(Abs(TradeQty), Abs(Q))
            sign      == IF Q > 0 THEN D(1) ELSE D(-1)
        IN  /\ pos.realized_pnl = pos_pre.realized_pnl
                 + DecMul(DecMul(DecMul(close_qty, pos_call.price - pos_pre.average_price),
                                 pos_pre.multiplier), sign)
            /\ pos.quantity = Q + TradeQty
            /\ IF Abs(TradeQty) <= Abs(Q)
               THEN /\ pos.average_price = pos_pre.average_price
                    /\ pos.cost_basis =
                           DecMul(DecMul(pos.quantity, pos_pre.average_price),
                                  pos_pre.multiplier)
               ELSE /\ Signum(pos.quantity) = Signum(TradeQty)
                    /\ Abs(pos.quantity) = Abs(TradeQty) - Abs(Q)
                    /\ pos.average_price = pos_call.price

\* long 10 @ 5.00 (multiplier 100), sell 15 @ 6.00: realized 1000, short 5 @ 6.00
C5_Witness ==
    /\ pos_pre = Position_with_entry(D(10), D(5), D(100), 1000)
    /\ pos_call.op = "add" /\ pos_call.quantity = D(-15) /\ pos_call.price = D(6)
    /\ pos.realized_pnl = D(1000)
    /\ pos.quantity = D(-5)
    /\ pos.average_price = D(6)

\* C6: add with quantity 0 changes no field; a trade in the direction of the
\* open quantity (or on a flat position) adds qty to the quantity and
\* trade_value = qty * price * multiplier to the cost basis, leaves realized_pnl
\* alone, and sets the average price to the Decimal quotient
\* (old cost basis + trade_value) / (new quantity * multiplier), that is the
\* representable value nearest to the exact quotient.
C6_AddSameDirection ==
    /\ (IsTrade /\ TradeQty = 0) => pos = pos_pre
    /\ SameDirectionTrade =>
          LET trade_value == DecMul(DecMul(TradeQty, pos_call.price), pos_pre.multiplier)
              new_qty     == pos_pre.quantity + TradeQty
              num         == pos_pre.cost_basis + trade_value
              den         == DecMul(new_qty, pos_pre.multiplier)
          IN  /\ pos.quantity = new_qty
              /\ pos.cost_basis = num
              /\ pos.realized_pnl = pos_pre.realized_pnl
              /\ 2 * Abs(pos.average_price * den - num * DecOne) <= Abs(den)

\* long 10 @ 5.00 (multiplier 100) plus 10 @ 6.00: 20 @ 5.50, cost basis 11000
C6_Witness ==
    /\ pos_pre = Position_with_entry(D(10), D(5), D(100), 1000)
    /\ pos_call.op = "add" /\ pos_call.quantity = D(10) /\ pos_call.price = D(6)
    /\ pos.quantity = D(20)
    /\ pos.average_price = D(5) + DecOne \div 2
    /\ pos.cost_basis = D(11000)

\* C7: in every state reachable from new / with_entry through add, reduce,
\* close and reset, cost_basis = quantity * average_price * multiplier.
C7_CostBasisInvariant ==
    pos.cost_basis = DecMul(DecMul(pos.quantity, pos.average_price), pos.multiplier)

FullCloseByClose ==
    pos_count > 0 /\ pos_call.op = "close" /\ pos_pre.quantity # 0

FullCloseByTrade ==
    IsTrade /\ pos_pre.quantity # 0 /\ TradeQty = -pos_pre.quantity

\* C8 as stated: after a full close of a non-flat position, by close() or by an
\* exactly offsetting add / reduce, the position is flat with average_price = 0
\* and cost_basis = 0.
C8_Original ==
    (FullCloseByClose \/ FullCloseByTrade) =>
        /\ pos.quantity = 0
        /\ pos.average_price = 0
        /\ pos.cost_basis = 0

\* C8 amended: close() of a non-flat position leaves quantity, average_price
\* and cost_basis at 0; an exactly offsetting add / reduce leaves quantity and
\* cost_basis at 0 and the average price as it was.
C8_FullClose ==
    /\ FullCloseByClose =>
          pos.quantity = 0 /\ pos.average_price = 0 /\ pos.cost_basis = 0
    /\ FullCloseByTrade =>
          /\ pos.quantity = 0
          /\ pos.cost_basis = 0
          /\ pos.average_price = pos_pre.average_price

\* a long position sold out exactly: flat, zero cost basis, stale average price
C8_Witness ==
    /\ FullCloseByTrade
    /\ pos_pre.quantity = D(10)
    /\ pos.quantity = 0
    /\ pos.cost_basis = 0
    /\ pos.average_price = D(5)

EntryThenClose ==
    pos_entry.op = "with_entry" /\ pos_count = 1 /\ pos_call.op = "close"

\* C9: with_entry(q, p, m, t) then close(p2, t) returns and records
\* q * (p2 - p) * m and leaves the position flat; with p2 = p that is 0.
C9_RoundTrip ==
    EntryThenClose =>
        LET pnl == DecMul(DecMul(pos_entry.quantity, pos_call.price - pos_entry.price),
                          pos.multiplier)
        IN  /\ pos_ret = pnl
            /\ pos.realized_pnl = pnl
            /\ Position_is_flat(pos)
            /\ pos_call.price = pos_entry.price => pos.realized_pnl = 0

\* with_entry(10, 5.00, 100, t) then close(6.00, t) returns 1000
C9_Witness ==
    /\ EntryThenClose
    /\ pos_entry.quantity = D(10) /\ pos_entry.price = D(5) /\ pos.multiplier = D(100)
    /\ pos_call.price = D(6)
    /\ pos_ret = D(1000)
    /\ pos.realized_pnl = D(1000)
    /\ pos.quantity = 0

----------------------------------------------------------------------------
(* Properties of the InventoryManager (checked under SpecInventory) *)

IsRecordTrade == inv_count > 0 /\ inv_call.op = "record_trade"

\* quantity held for the traded symbol before the call (0 when untracked)
QuantityBefore ==
    IF inv_call.symbol \in DOMAIN inv_pre.positions
    THEN inv_pre.positions[inv_call.symbol].quantity
    ELSE 0

\* C1: record_trade fails with InventoryLimitExceeded and changes nothing when
\* |current quantity + qty| exceeds the per-contract ceiling; otherwise the
\* trade is applied with Position::add to that symbol's position (created flat
\* with the default multiplier when absent).
C1_RecordTradeAtomic ==
    IsRecordTrade =>
        LET new_qty == QuantityBefore + inv_call.quantity
            before  == IF inv_call.symbol \in DOMAIN inv_pre.positions
                       THEN inv_pre.positions[inv_call.symbol]
                       ELSE Position_new(inv_pre.default_multiplier)
        IN  IF Abs(new_qty) > inv_pre.limits.per_option
            THEN /\ inv_ret.err = "InventoryLimitExceeded"
                 /\ inv_ret.limit_type = "per_option"
                 /\ inv_ret.limit = inv_pre.limits.per_option
                 /\ inv_ret.current = Abs(new_qty)
                 /\ inv = inv_pre
            ELSE /\ inv_ret = Ok
                 /\ DOMAIN inv.positions = DOMAIN inv_pre.positions \cup {inv_call.symbol}
                 /\ inv.positions[inv_call.symbol] =
                        Position_add(before, inv_call.quantity, inv_call.price, inv_call.ts)
                 /\ \A k \in DOMAIN inv_pre.positions \ {inv_call.symbol} :
                        inv.positions[k] = inv_pre.positions[k]
                 /\ inv.limits = inv_pre.limits
                 /\ inv.default_multiplier = inv_pre.default_multiplier

\* ceiling 10, position +10, then +5 on the same symbol: the call fails and
\* the quantity stays 10
C1_Witness ==
    /\ IsRecordTrade
    /\ inv.limits.per_option = D(10)
    /\ QuantityBefore = D(10)
    /\ inv_call.quantity = D(5)
    /\ inv_ret.err = "InventoryLimitExceeded"
    /\ inv.positions[inv_call.symbol].quantity = D(10)

----------------------------------------------------------------------------
(* Properties of the DeltaHedger (checked under SpecHedger) *)

IsCalculateHedge == h_count > 0 /\ h_call.op = "calculate_hedge"

Clamp(x, bound) == IF x > bound THEN bound ELSE IF x < -bound THEN -bound ELSE x

\* C10: calculate_hedge returns no order when |current_delta - target_delta| <
\* hedge_threshold or when |raw_quantity| < min_hedge_size, raw_quantity being
\* -(current_delta - target_delta); otherwise it returns an order whose
\* quantity is raw_quantity clamped to +-max_hedge_size.
C10_CalculateHedge ==
    IsCalculateHedge =>
        LET raw_quantity == -(h_pre.current_delta - h_pre.params.target_delta)
        IN  IF \/ Abs(raw_quantity) < h_pre.params.hedge_threshold
               \/ Abs(raw_quantity) < h_pre.params.min_hedge_size
            THEN h_ret = None
            ELSE /\ Len(h_ret) = 1
                 /\ h_ret[1].quantity = Clamp(raw_quantity, h_pre.params.max_hedge_size)

\* threshold 10, target 0, delta 15: the order sells 15
C10_Witness ==
    /\ IsCalculateHedge
    /\ h.params = HedgeParams_default
    /\ h.current_delta = D(15)
    /\ Len(h_ret) = 1
    /\ h_ret[1].quantity = D(-15)

\* C11: the hedger never applies a hedge by itself.  needs_hedge and
\* calculate_hedge leave the hedger (current_delta, last_hedge_ms, params)
\* as it was; record_hedge(qty, ts) adds qty to current_delta and sets
\* last_hedge_ms to ts; update_delta(d) overwrites current_delta with d
\* (no accumulation) and keeps last_hedge_ms.
C11_NeverSelfApplies ==
    h_count > 0 =>
        /\ h.params = h_pre.params
        /\ h_call.op \in {"needs_hedge", "calculate_hedge"} => h = h_pre
        /\ h_call.op = "record_hedge" =>
               /\ h.current_delta = h_pre.current_delta + h_call.arg
               /\ h.last_hedge_ms = h_call.ts
        /\ h_call.op = "update_delta" =>
               /\ h.current_delta = h_call.arg
               /\ h.last_hedge_ms = h_pre.last_hedge_ms

\* calculate_hedge returned an order on a hedger that had recorded a hedge
\* and then received a new non-zero delta report; the order was not applied
C11_Witness ==
    /\ IsCalculateHedge
    /\ h_ret # None
    /\ h.current_delta # 0
    /\ h.last_hedge_ms # 0
    /\ h_ret[1].quantity # 0

IsGenerateQuote == q_call.op = "generate_quote"

IsOptimalSpread == q_call.op = "optimal_spread"

ValidParams(params) == QuoteParams_validate(params) = <<"Ok">>

\* C12: quote validity (prices).  For every QuoteParams that passes
\* validate(), generate_quote returns a quote with ask_price > bid_price
\* and bid_price >= 0.
C12_QuotePrices ==
    (IsGenerateQuote /\ ValidParams(q_call.params)) =>
        /\ q_ret # Panic
        /\ q_ret[1].ask_price > q_ret[1].bid_price
        /\ q_ret[1].bid_price >= 0

InSizeLimits(size, params) == params.min_size <= size /\ size <= params.max_size

\* C13: quote sizes.  For valid QuoteParams, generate_quote returns a
\* bid_size and an ask_size within [min_size, max_size], except that bid_size
\* is 0 when inventory >= max_inventory and ask_size is 0 when
\* inventory <= -max_inventory.
C13_QuoteSizes ==
    (IsGenerateQuote /\ ValidParams(q_call.params)) =>
        LET params == q_call.params
        IN  /\ q_ret # Panic
            /\ IF params.inventory >= params.max_inventory
               THEN q_ret[1].bid_size = 0
               ELSE InSizeLimits(q_ret[1].bid_size, params)
            /\ IF params.inventory <= -params.max_inventory
               THEN q_ret[1].ask_size = 0
               ELSE InSizeLimits(q_ret[1].ask_size, params)

\* a quote for valid parameters at the long ceiling: no bid size, and an
\* ask size skewed above the middle of the size limits
C13_Witness ==
    /\ IsGenerateQuote
    /\ ValidParams(q_call.params)
    /\ q_call.params.inventory >= q_call.params.max_inventory
    /\ q_ret # Panic
    /\ q_ret[1].bid_size = 0
    /\ 2 * q_ret[1].ask_size > q_call.params.min_size + q_call.params.max_size
    /\ InSizeLimits(q_ret[1].ask_size, q_call.params)

InSpreadRange(spread) == sc.min_spread <= spread /\ spread <= sc.max_spread

\* C14 as stated: optimal_spread returns a value in [min_spread, max_spread]
\* for every input.
C14_Original ==
    IsOptimalSpread => (q_ret # Panic /\ InSpreadRange(q_ret[1]))

\* C14: optimal_spread returns a value in [min_spread, max_spread] for every
\* QuoteParams that passes validate(), provided the calculator was configured
\* with min_spread <= max_spread.  With risk_aversion = 0 or
\* arrival_intensity = 0 the call panics on a division by zero, and with
\* min_spread > max_spread it returns max_spread.
C14_SpreadClamped ==
    IsOptimalSpread =>
        LET params == q_call.params
        IN  /\ (params.risk_aversion = 0 \/ params.arrival_intensity = 0)
                   => q_ret = Panic
            /\ ValidParams(params) => q_ret # Panic
            /\ (q_ret # Panic /\ sc.min_spread <= sc.max_spread)
                   => InSpreadRange(q_ret[1])
            /\ (q_ret # Panic /\ sc.min_spread > sc.max_spread)
                   => q_ret[1] = sc.max_spread

\* valid parameters whose unclamped spread is above the ceiling: the call
\* returned max_spread
C14_Witness ==
    /\ IsOptimalSpread
    /\ ValidParams(q_call.params)
    /\ sc.min_spread < sc.max_spread
    /\ SpreadCalculator_adjusted_spread(sc, q_call.params) > sc.max_spread
    /\ q_ret = <<sc.max_spread>>

\* the last two calls were optimal_spread(p1) and optimal_spread(p2), both
\* returned, and p1, p2 differ at most in their volatility
TwoSpreads ==
    /\ IsOptimalSpread
    /\ q_pre # None
    /\ q_ret # Panic
    /\ [q_pre[1] EXCEPT !.volatility = 0] = [q_call.params EXCEPT !.volatility = 0]

\* the spread of the later call is not below the spread of the earlier one,
\* prior to clamping and after it
SpreadNotBelow ==
    /\ SpreadCalculator_adjusted_spread(sc, q_pre[1])
           <= SpreadCalculator_adjusted_spread(sc, q_call.params)
    /\ q_pre[2] <= q_ret[1]

\* C15 as stated: with all other parameters fixed, sigma1 < sigma2 implies
\* optimal_spread(sigma1) <= optimal_spread(sigma2), prior to clamping and
\* after it.
C15_Original ==
    (TwoSpreads /\ q_pre[1].volatility < q_call.params.volatility) => SpreadNotBelow

\* C15: spread monotonicity.  For parameters that pass validate() (so
\* 0 <= sigma1) and a calculator with volatility_factor >= 0, with all other
\* parameters fixed, sigma1 < sigma2 implies
\* optimal_spread(sigma1) <= optimal_spread(sigma2), prior to clamping and
\* after it.
C15_SpreadMonotone ==
    ( /\ TwoSpreads
      /\ ValidParams(q_pre[1])
      /\ ValidParams(q_call.params)
      /\ sc.volatility_factor >= 0
      /\ q_pre[1].volatility < q_call.params.volatility ) => SpreadNotBelow

\* two spreads for valid parameters, the second at a higher volatility, and
\* the second spread is strictly wider prior to clamping and after it
C15_Witness ==
    /\ TwoSpreads
    /\ ValidParams(q_pre[1])
    /\ ValidParams(q_call.params)
    /\ sc.volatility_factor > 0
    /\ q_pre[1].volatility < q_call.params.volatility
    /\ SpreadCalculator_adjusted_spread(sc, q_pre[1])
           < SpreadCalculator_adjusted_spread(sc, q_call.params)
    /\ q_pre[2] < q_ret[1]

\* C20: QuoteParams with a negative volatility, a non-positive risk aversion
\* or max_size < min_size fail validation before any quote computation:
\* generate_quote never returns a quote for them (and so never clamps them
\* silently).
C20_FailFast ==
    ( /\ IsGenerateQuote
      /\ \/ q_call.params.volatility < 0
         \/ q_call.params.risk_aversion <= 0
         \/ q_call.params.max_size < q_call.params.min_size )
    => /\ QuoteParams_validate(q_call.params)[1] = "Err"
       /\ q_ret = Panic

\* C16: P&L attribution closure.  For the result of any
\* PnLAttribution::calculate(greeks, spot_change, vol_change, days_passed,
\* rate_change, actual_pnl) call, explained_pnl() + unexplained_pnl equals
\* actual_pnl.
C16_AttributionClosure ==
    g_call.op = "calculate" =>
        PnLAttribution_explained_pnl(g_ret) + g_ret.unexplained_pnl = g_call.actual_pnl

\* an attribution with every component at work (non-zero delta, gamma,
\* theta, vega and rho P&L) and a non-zero residual
C16_Witness ==
    /\ g_call.op = "calculate"
    /\ g_ret.delta_pnl # 0 /\ g_ret.gamma_pnl # 0 /\ g_ret.theta_pnl # 0
    /\ g_ret.vega_pnl # 0 /\ g_ret.rho_pnl # 0
    /\ g_ret.unexplained_pnl # 0
    /\ g_call.actual_pnl # 0

\* sum of the amounts of the calls named op in the log
RECURSIVE LogSum(_, _)
LogSum(log, op) ==
    IF log = <<>>
    THEN 0
    ELSE LogSum(Tail(log), op) + (IF Head(log).op = op THEN Head(log).amount ELSE 0)

\* amount of the most recent call named op in the log, 0 without one
RECURSIVE LogLast(_, _)
LogLast(log, op) ==
    IF log = <<>>
    THEN 0
    ELSE IF log[Len(log)].op = op
         THEN log[Len(log)].amount
         ELSE LogLast(SubSeq(log, 1, Len(log) - 1), op)

\* C17: PnLCalculator ledger.  After any sequence of add_realized,
\* update_unrealized and add_fees calls (since new() or the last reset()),
\* realized is the sum of the add_realized amounts, fees the sum of the
\* add_fees amounts, unrealized the most recent update_unrealized amount
\* (replaced, not accumulated), total_pnl = realized + unrealized - fees and
\* net_realized = realized - fees.
C17_Ledger ==
    LET realized   == LogSum(pc_log, "add_realized")
        fees       == LogSum(pc_log, "add_fees")
        unrealized == LogLast(pc_log, "update_unrealized")
    IN  /\ pc.realized_pnl = realized
        /\ pc.total_fees = fees
        /\ pc.unrealized_pnl = unrealized
        /\ PnLCalculator_total_pnl(pc) = realized + unrealized - fees
        /\ PnLCalculator_net_realized_pnl(pc) = realized - fees

\* two add_realized, two update_unrealized with different amounts and an
\* add_fees call were made, in some order
C17_Witness ==
    /\ Len(pc_log) >= 4
    /\ \E i, j \in DOMAIN pc_log :
         /\ i < j
         /\ pc_log[i].op = "update_unrealized" /\ pc_log[j].op = "update_unrealized"
         /\ pc_log[i].amount # pc_log[j].amount
    /\ \E i \in DOMAIN pc_log : pc_log[i].op = "add_realized"
    /\ \E i \in DOMAIN pc_log : pc_log[i].op = "add_fees"
    /\ pc.unrealized_pnl # 0 /\ pc.realized_pnl # 0 /\ pc.total_fees # 0

IsAddGreeks == g_call.op = "add"

IsSumGreeks == g_call.op = "sum"

\* C18: Greeks addition is associative with zero as identity,
\* (g1 + g2) + g3 = g1 + (g2 + g3) and g + zero = g, and the Sum over a
\* sequence of Greeks equals folding them with repeated add.
C18_GreeksMonoid ==
    /\ IsAddGreeks =>
          /\ g_ret[1] = g_ret[2]
          /\ g_ret[3] = g_call.g1
    /\ IsSumGreeks =>
          LET iter == g_call.iter
          IN  g_ret = CASE Len(iter) = 0 -> Greeks_zero
                        [] Len(iter) = 1 -> iter[1]
                        [] Len(iter) = 2 -> Greeks_add(iter[1], iter[2])
                        [] Len(iter) = 3 ->
                               Greeks_add(Greeks_add(iter[1], iter[2]), iter[3])

\* three different non-zero Greeks were added in both groupings
C18_Witness ==
    /\ IsAddGreeks
    /\ g_call.g1 # g_call.g2 /\ g_call.g2 # g_call.g3 /\ g_call.g1 # g_call.g3
    /\ Greeks_zero \notin { g_call.g1, g_call.g2, g_call.g3 }
    /\ g_ret[1].delta = g_call.g1.delta + g_call.g2.delta + g_call.g3.delta
    /\ g_ret[1] # g_call.g1

IsCheckGreekLimits == inv_count > 0 /\ inv_call.op = "check_greek_limits"

\* Greeks held for a symbol before the call (zero when untracked)
GreeksBefore(symbol) ==
    IF symbol \in DOMAIN inv_pre.positions
    THEN inv_pre.positions[symbol].greeks
    ELSE Greeks_zero

GreekKinds == { "Delta", "Gamma", "Vega", "Theta" }

\* absolute dollar exposure of the manager's summed Greeks, per ceiling
DollarExposure(kind) ==
    LET total == Greeks_add(GreeksBefore("BTC-C"), GreeksBefore("BTC-P"))
        spot == inv_call.spot
        multiplier == inv_call.multiplier
    IN  Abs(CASE kind = "Delta" -> Greeks_dollar_delta(total, spot, multiplier)
              [] kind = "Gamma" -> Greeks_dollar_gamma(total, spot, multiplier)
              [] kind = "Vega"  -> Greeks_dollar_vega(total, multiplier)
              [] kind = "Theta" -> Greeks_dollar_theta(total, multiplier))

GreekCeiling(kind) ==
    CASE kind = "Delta" -> inv_pre.limits.max_delta
      [] kind = "Gamma" -> inv_pre.limits.max_gamma
      [] kind = "Vega"  -> inv_pre.limits.max_vega
      [] kind = "Theta" -> inv_pre.limits.max_theta

\* C19: InventoryManager.check_greek_limits(spot, multiplier) changes nothing
\* and returns, for the sum of the positions' Greeks, exactly one entry
\* (current, limit) per dollar-Greek ceiling (delta, gamma, vega, theta) whose
\* absolute dollar exposure exceeds it, and no entry for the other ceilings.
C19_GreekLimits ==
    IsCheckGreekLimits =>
        /\ inv = inv_pre
        /\ \A kind \in GreekKinds :
              (DollarExposure(kind) > GreekCeiling(kind))
                  <=> (\E i \in 1..Len(inv_ret) :
                          inv_ret[i] = LimitBreach(kind, DollarExposure(kind),
                                                   GreekCeiling(kind)))
        /\ Len(inv_ret)
              = Cardinality({ kind \in GreekKinds :
                                DollarExposure(kind) > GreekCeiling(kind) })

\* two positions with different non-zero Greeks were checked and more than
\* one ceiling, but not every ceiling, was reported as breached
C19_Witness ==
    /\ IsCheckGreekLimits
    /\ GreeksBefore("BTC-C") # Greeks_zero
    /\ GreeksBefore("BTC-P") # Greeks_zero
    /\ GreeksBefore("BTC-C") # GreeksBefore("BTC-P")
    /\ Len(inv_ret) \in 2..3

----------------------------------------------------------------------------
(* Further properties of the RiskController *)

\* C23: check_greek_limits(greeks) changes no controller state, so it never
\* halts even when it reports breaches, and reset_daily() sets daily_pnl and
\* peak_pnl to zero and leaves is_halted and halt_reason as they were.
C23_ReadOnlyChecks ==
    /\ rc_call[1] = "check_greek_limits" => rc = rc_pre
    /\ rc_call[1] = "reset_daily" =>
          rc = [rc_pre EXCEPT !.daily_pnl = 0, !.peak_pnl = 0]

\* an active controller reported three breaches and is still active, or a
\* halted controller with a P&L history was reset and is still halted
C23_Witness ==
    \/ /\ rc_call[1] = "check_greek_limits"
       /\ Len(rc_call[2][2]) = 3
       /\ ~rc_pre.is_halted /\ ~rc.is_halted
    \/ /\ rc_call[1] = "reset_daily"
       /\ rc_pre.is_halted /\ rc_pre.daily_pnl # 0 /\ rc_pre.peak_pnl # 0
       /\ rc.is_halted /\ rc.halt_reason = rc_pre.halt_reason

\* C25: whenever an update_pnl call breaches the daily loss limit
\* (daily_pnl < -max_daily_loss) the controller is halted afterwards and the
\* halt reason names the daily loss.
C25_DailyLossReason ==
    (rc_call[1] = "update_pnl" /\ rc.daily_pnl < -rc_limits.max_daily_loss) =>
        /\ rc.is_halted
        /\ rc.halt_reason # None
        /\ rc.halt_reason[1] = "Daily loss limit exceeded"

\* C30: on a controller with non-negative limits whose resume() was never
\* called, every state that is not halted has daily_pnl >= -max_daily_loss,
\* peak_pnl - daily_pnl <= max_drawdown and |position_value| <= max_position_value.
C30_NoActiveBreach ==
    ~RiskController_is_halted(rc) =>
        /\ rc.daily_pnl >= -rc_limits.max_daily_loss
        /\ rc.peak_pnl - rc.daily_pnl <= rc_limits.max_drawdown
        /\ Abs(rc.position_value) <= rc_limits.max_position_value

\* after a daily reset the controller is active with the daily loss and the
\* position value both exactly at their limits
C30_Witness ==
    /\ ~RiskController_is_halted(rc)
    /\ rc_call[3] >= 3
    /\ rc_reports # rc_all
    /\ rc.daily_pnl = -rc_limits.max_daily_loss
    /\ Abs(rc.position_value) = rc_limits.max_position_value

----------------------------------------------------------------------------
(* Properties of the MarketDataHandler (checked under SpecMarket) *)

IsProcessUpdate == md_call[1] = "process_update"

StrictlyIncreasing(seq) == \A i \in 1..(Len(seq) - 1) : seq[i] < seq[i + 1]

\* Option of the sequence number stored for a symbol
StoredSequence(handler, symbol) ==
    IF symbol \in DOMAIN handler.sequences THEN Some(handler.sequences[symbol]) ELSE None

\* the sequence numbers applied for the updated symbol before the last call
AppliedBefore(history) ==
    LET applied == history[md_call[2].symbol]
    IN  IF md_ret THEN SubSeq(applied, 1, Len(applied) - 1) ELSE applied

\* an applied update is stored as the symbol's latest, a rejected one changes
\* nothing, and the data of the other symbols stays as it was
ProcessUpdateEffect ==
    IsProcessUpdate =>
        LET update == md_call[2]
        IN  /\ md_ret =>
                  /\ MarketDataHandler_get_tick(md, update.symbol) = Some(update.tick)
                  /\ StoredSequence(md, update.symbol) = Some(update.sequence)
            /\ ~md_ret => md = md_pre
            /\ \A symbol \in MarketSymbols \ {update.symbol} :
                  /\ MarketDataHandler_get_tick(md, symbol)
                        = MarketDataHandler_get_tick(md_pre, symbol)
                  /\ StoredSequence(md, symbol) = StoredSequence(md_pre, symbol)

\* C24 as stated: process_update applies an update only when its sequence
\* number is above the last one applied for the symbol, rejects a stale or
\* duplicate one without any change, and so the sequence numbers applied for
\* each symbol are strictly increasing.
C24_Original ==
    /\ ProcessUpdateEffect
    /\ IsProcessUpdate =>
          LET before == AppliedBefore(md_applied)
          IN  (before # << >> /\ md_call[2].sequence <= before[Len(before)]) => ~md_ret
    /\ \A symbol \in MarketSymbols : StrictlyIncreasing(md_applied[symbol])

\* C24 amended: process_update applies an update exactly when its sequence
\* number is above the last one applied for the symbol since new() or the
\* last clear() (above 0 when there is none), rejects any other update
\* without any change, and the sequence numbers applied for each symbol since
\* new() or the last clear() are strictly increasing.
C24_SequenceGate ==
    /\ ProcessUpdateEffect
    /\ IsProcessUpdate =>
          LET before == AppliedBefore(md_fresh)
              last   == IF before = << >> THEN 0 ELSE before[Len(before)]
          IN  md_ret <=> (md_call[2].sequence > last)
    /\ \A symbol \in MarketSymbols : StrictlyIncreasing(md_fresh[symbol])

\* a duplicate of the last applied update was rejected while the other symbol
\* holds data too
C24_Witness ==
    /\ IsProcessUpdate
    /\ ~md_ret
    /\ md_call[2].sequence > 0
    /\ StoredSequence(md, md_call[2].symbol) = Some(md_call[2].sequence)
    /\ MarketDataHandler_get_tick(md, md_call[2].symbol) # Some(md_call[2].tick)
    /\ \E symbol \in MarketSymbols \ {md_call[2].symbol} :
          MarketDataHandler_get_tick(md, symbol) # None

----------------------------------------------------------------------------
(* Properties of the OptionOrderBookManager (checked under SpecBooks) *)

\* the hash index agrees with the symbol index, a removed symbol is found by
\* neither lookup, and get_or_create on an existing symbol returns the
\* existing book and leaves the number of books unchanged
IndexConsistent ==
    /\ \A hash \in SymbolHashes :
          LET found == OptionOrderBookManager_get_by_hash(ob, hash)
          IN  /\ (found # None)
                    <=> (\E symbol \in DOMAIN ob.books : ob.books[symbol].symbol_hash = hash)
              /\ found # None =>
                    /\ found[1].symbol_hash = hash
                    /\ OptionOrderBookManager_get(ob, found[1].symbol) = found
    /\ ob_call[1] = "remove" =>
          LET found == OptionOrderBookManager_get_by_hash(
                           ob, OptionOrderBook_hash_symbol(ob_call[2]))
          IN  /\ OptionOrderBookManager_get(ob, ob_call[2]) = None
              /\ found # None => found[1].symbol # ob_call[2]
    /\ (ob_call[1] = "get_or_create" /\ ob_call[2] \in DOMAIN ob_pre.books) =>
          /\ ob_ret = ob_pre.books[ob_call[2]]
          /\ OptionOrderBookManager_len(ob) = OptionOrderBookManager_len(ob_pre)

\* no two symbols given to the manager so far have the same symbol hash
DistinctHashes ==
    \A s1, s2 \in ob_seen :
        OptionOrderBook_hash_symbol(s1) = OptionOrderBook_hash_symbol(s2) => s1 = s2

----------------------------------------------------------------------------
(* Further properties of the InventoryManager (checked under SpecInventory) *)

\* C22: a successful record_trade(symbol, ..) changes only the position of
\* that symbol: every other symbol's position (tracked or not) and the
\* configured limits are as before; checking the Greek limits changes nothing.
C22_TradeFrame ==
    /\ (IsRecordTrade /\ inv_ret = Ok) =>
          /\ \A symbol \in Symbols \ {inv_call.symbol} :
                InventoryManager_get_position(inv, symbol)
                    = InventoryManager_get_position(inv_pre, symbol)
          /\ inv.limits = inv_pre.limits
    /\ IsCheckGreekLimits =>
          /\ inv.positions = inv_pre.positions
          /\ inv.limits = inv_pre.limits

\* a trade changed the position of one symbol while the other symbol's
\* position, opened earlier, is as it was
C22_Witness ==
    /\ IsRecordTrade /\ inv_ret = Ok
    /\ InventoryManager_get_position(inv, inv_call.symbol)
          # InventoryManager_get_position(inv_pre, inv_call.symbol)
    /\ \E symbol \in Symbols \ {inv_call.symbol} :
          /\ symbol \in DOMAIN inv.positions
          /\ inv.positions[symbol].quantity # 0
          /\ inv.positions[symbol].last_update_ms < inv_call.ts

\* C27: starting from an empty manager with a non-negative per-contract
\* ceiling, after any sequence of record_trade calls, successful or failed,
\* every tracked position has |quantity| <= the per-contract ceiling.
C27_PerOptionCeiling ==
    \A symbol \in DOMAIN inv.positions :
        Abs(inv.positions[symbol].quantity) <= PositionLimits_per_option(inv.limits)

\* one position is long and one short, both exactly at the ceiling, and the
\* last trade was refused
C27_Witness ==
    /\ IsRecordTrade
    /\ inv_ret # Ok
    /\ \E s1, s2 \in DOMAIN inv.positions :
          /\ inv.positions[s1].quantity = PositionLimits_per_option(inv.limits)
          /\ inv.positions[s2].quantity = -PositionLimits_per_option(inv.limits)

----------------------------------------------------------------------------
(* Properties of trade sequences on a Position (checked under SpecTrades) *)

\* the position after add(q, p) for each <<q, p>> of trades, in order
RECURSIVE ApplyTrades(_, _)
ApplyTrades(position, trades) ==
    IF trades = << >>
    THEN position
    ELSE ApplyTrades(Position_add(position, trades[1][1], trades[1][2], 0), Tail(trades))

\* the orders in which n trades can be applied, for each n
AllOrders ==
    [n \in 0..(MaxTradeOps + 1) |->
        { order \in [1..n -> 1..n] : \A i, j \in 1..n : order[i] = order[j] => i = j }]

Orders(n) == AllOrders[n]

\* the position the trades applied so far give when applied in the given order
Reordered(order) ==
    ApplyTrades(Position_new(pos.multiplier), [i \in 1..Len(pos_trades) |-> pos_trades[order[i]]])

\* C21: the quantity a position ends with is the same for every order in
\* which its trades are applied; the average price and the realized P&L are
\* not: some trade sequences give different values in a different order.
C21_QuantityOrderFree ==
    \A order \in Orders(Len(pos_trades)) : Reordered(order).quantity = pos.quantity

\* three trades that leave another average price and another realized P&L,
\* but the same quantity, when applied in a different order
C21_Witness ==
    \E order \in Orders(Len(pos_trades)) :
        /\ Reordered(order).quantity = pos.quantity
        /\ Reordered(order).average_price # pos.average_price
        /\ Abs(Reordered(order).realized_pnl - pos.realized_pnl) > D(1)

\* sum over the trades of q_i * (p - p_i) * multiplier
RECURSIVE TradesPnl(_, _, _)
TradesPnl(trades, price, multiplier) ==
    IF trades = << >>
    THEN 0
    ELSE DecMul(DecMul(trades[1][1], price - trades[1][2]), multiplier)
            + TradesPnl(Tail(trades), price, multiplier)

----------------------------------------------------------------------------
(* The hedging loop (checked under SpecHedgeLoop) *)

\* the last call recorded the order calculated right before it
HedgeRecorded == h_loop /\ h_call.op = "record_hedge"

\* the recorded order did not carry the deviation past the target
NoOvershoot ==
    HedgeRecorded =>
        LET before == DeltaHedger_delta_deviation(h_pre)
            after  == DeltaHedger_delta_deviation(h)
        IN  /\ before > 0 => after >= 0
            /\ before < 0 => after <= 0
            /\ before = 0 => after = 0
            /\ h_call.arg # 0 => Abs(after) < Abs(before)

\* calculate_hedge returned no order
NoOrder == h_call.op = "calculate_hedge" /\ h_ret = None

\* C29: with max_hedge_size > 0 and no update_delta in between, calling
\* calculate_hedge and recording each returned order's quantity again and
\* again never overshoots the target (the deviation never changes sign and
\* gets strictly smaller with each non-zero order), and after finitely many
\* rounds calculate_hedge returns no order.
C29_Convergence == []NoOvershoot /\ <>NoOrder

====
